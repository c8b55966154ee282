-------------------------- MODULE MCFramePipeline --------------------------
\* Instances of FramePipeline for TLC.
EXTENDS FramePipeline, TLC

\* The camera's buffers differ by nothing but their identity.
BufferSymmetry == Permutations(Buffers)
=============================================================================
