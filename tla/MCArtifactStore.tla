---------------------------- MODULE MCArtifactStore ----------------------------
EXTENDS ArtifactStore

CONSTANTS evidence, trace, state, image

\* Evidence names a Session trace and the state of its Attempt; in the trace an
\* Agent mentions something else.
MCNames == [d \in Digest |-> IF d = evidence THEN {trace, state} ELSE {}]
MCEmbeds == [d \in Digest |-> IF d = trace THEN {image} ELSE MCNames[d]]
=============================================================================
