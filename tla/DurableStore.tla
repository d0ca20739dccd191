---------------------------- MODULE DurableStore ----------------------------
(***************************************************************************)
(* What the database promises about durability (WriteOptions::sync in      *)
(* redisdb/db/option.h): a write is kept once it is acknowledged; a crash  *)
(* of the process loses nothing, a crash of the machine at most writes     *)
(* that were not synced; an open database serves exactly what is kept.     *)
(***************************************************************************)
EXTENDS Naturals

CONSTANT MaxWrites   \* bound on the number of writes

VARIABLES kept,     \* the writes on disk
          safe,     \* those written with options.sync
          serving,  \* the database is open
          visible   \* the writes a reader of the open database can find

vars == <<kept, safe, serving, visible>>

Init == kept = {} /\ safe = {} /\ serving = FALSE /\ visible = {}

Write(x, sync) ==
  /\ serving /\ x \notin kept
  /\ kept' = kept \cup {x}
  /\ safe' = IF sync THEN safe \cup {x} ELSE safe
  /\ visible' = kept'
  /\ UNCHANGED serving

Open ==
  /\ ~serving
  /\ serving' = TRUE /\ visible' = kept
  /\ UNCHANGED <<kept, safe>>

(* The process dies and nothing is lost, or the machine does.              *)
Crash(power) ==
  /\ serving' = FALSE /\ visible' = {}
  /\ kept' \in IF power THEN {S \in SUBSET kept : safe \subseteq S} ELSE {kept}
  /\ UNCHANGED safe

Next == \/ \E x \in 1..MaxWrites, sync \in BOOLEAN : Write(x, sync)
        \/ Open
        \/ \E power \in BOOLEAN : Crash(power)

Spec == Init /\ [][Next]_vars
=============================================================================
