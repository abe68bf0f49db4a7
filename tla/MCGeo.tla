---- MODULE MCGeo ----
EXTENDS Geo
====
