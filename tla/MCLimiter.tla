---- MODULE MCLimiter ----
EXTENDS Limiter
====
