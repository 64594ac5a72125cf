-------------------------- MODULE MCBuildPipeline --------------------------
EXTENDS BuildPipeline
============================================================================
