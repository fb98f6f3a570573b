---- MODULE MCRotation ----
EXTENDS Rotation
====
