---- MODULE MCVisitors ----
EXTENDS Visitors

Ids == People \X (0 .. MaxClock)
====
