----------------------------- MODULE MCStartup -----------------------------
(* Small instances of Startup: every text of up to MaxLength symbols. *)
EXTENDS Startup

CONSTANT MaxLength

\* BTCD and LDK are compiled, GOCOIN is not.
MCWords == {"BTCD", "LDK", "GOCOIN"}
MCDefs == <<"BTCD", "LDK">>

MCTexts == UNION {[1..n -> Symbols] : n \in 0..MaxLength}
=============================================================================
