---- MODULE MCSessionHistory ----
EXTENDS SessionHistory
====
