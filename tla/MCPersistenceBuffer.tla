------------------------ MODULE MCPersistenceBuffer ------------------------
(* PersistenceBuffer on small instances: two signals, one more than a       *)
(* batch holds. Liveness is checked too, hence no symmetry.                 *)
EXTENDS PersistenceBuffer

CONSTANTS s1, s2
=============================================================================
