-------------------------- MODULE MCResourceUpload --------------------------
\* ResourceUpload needs no definitions for model checking; the instances are in
\* its configurations.
EXTENDS ResourceUpload

=============================================================================
