-------------------------- MODULE MCAlertDelivery --------------------------
(* Two conditions that clear at once and a queue of two jobs: the third     *)
(* event of two ticks is dropped or not as the worker happens to run.       *)
EXTENDS AlertDelivery

CONSTANTS k1, k2

MCKeys      == {k1, k2}
MCWarnTexts == {1}
MCCritTexts == {2}
=============================================================================
