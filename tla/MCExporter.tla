----------------------------- MODULE MCExporter -----------------------------
(* Two scrapes, and as many collector identities as are ever in use at      *)
(* once: one collecting and one about to close its channel.                 *)
EXTENDS Exporter

CONSTANTS s1, s2, c1, c2, c3
MCScrapes    == {s1, s2}
MCCollectors == {c1, c2, c3}
=============================================================================
