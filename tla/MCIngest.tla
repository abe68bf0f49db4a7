---- MODULE MCIngest ----
EXTENDS Ingest
====
