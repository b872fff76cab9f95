---- MODULE MCRendering ----
EXTENDS Rendering
====
