---- MODULE MCYatiPipeline ----
EXTENDS YatiPipeline
====
