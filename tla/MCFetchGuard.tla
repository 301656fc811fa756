---------------------------- MODULE MCFetchGuard ----------------------------
(* One kind of each sort: the fast ones with rules of their own, the /proc  *)
(* walk, a disabled ping, and the vcgencmd round a key can refresh.         *)
EXTENDS FetchGuard

MCFast     == {"cpu", "memory"}
MCProcRate == {"processes", "ping"}
MCSlow     == {"gpu/soc"}
MCUser     == {"processes", "gpu/soc"}
MCDisabled == {"ping"}
MCErrKinds == {"cpu", "memory", "processes"}
=============================================================================
