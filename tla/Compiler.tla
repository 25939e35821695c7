------------------------------ MODULE Compiler ------------------------------
(***************************************************************************)
(* The compilation of one expression, from the reductions of the parser to *)
(* the validated program (_pcap_compile, _bpf_optimize and what they call  *)
(* in internal/bpf.go).  Between the parser and the conversion, which are  *)
(* in Parser, the flow graph is optimized, pass by pass (Optimize), if     *)
(* that was asked for.                                                     *)
(***************************************************************************)
EXTENDS Parser, Optimize

VARIABLE
  alter           \* opt_loop's do_stmts

vars == << expr, todo, stack, cs, optimize, o, alter, conv, phase >>
parsed == << expr, todo, stack, cs, optimize >>

-----------------------------------------------------------------------------
(* opt_init: the analyses have no results yet. *)
BeginOptimize ==
  /\ phase = "optimize"
  /\ o' = InitOpt(o)
  /\ phase' = "blocks"
  /\ UNCHANGED << parsed, alter, conv >>

(* The end of a round of opt_loop. *)
Rounded(r) ==
  IF r.failed THEN /\ phase' = "error" /\ o' = r /\ alter' = alter
  ELSE IF ~r.done THEN /\ phase' = "blocks" /\ o' = r /\ alter' = alter
  ELSE IF ~alter THEN /\ phase' = "blocks" /\ o' = [r EXCEPT !.count = 0] /\ alter' = TRUE
  ELSE /\ phase' = "intern" /\ o' = r /\ alter' = alter

BlocksPass ==
  /\ phase = "blocks"
  /\ \E r \in {OptBlks(BeginRound(o), alter)} :
       IF alter \/ r.failed THEN Rounded(EndRound(r))
       ELSE phase' = "jumps" /\ o' = r /\ alter' = alter
  /\ UNCHANGED << parsed, conv >>

JumpsPass ==
  /\ phase = "jumps"
  /\ o' = OptJs(o)
  /\ phase' = "pulls"
  /\ UNCHANGED << parsed, alter, conv >>

PullsPass ==
  /\ phase = "pulls"
  /\ \E r \in {EndRound(PullUps(o))} : Rounded(r)
  /\ UNCHANGED << parsed, conv >>

(* A graph that is only "ret #0" is refused: it rejects every packet. *)
InternPass ==
  /\ phase = "intern"
  /\ o' = OptRoot(Intern(o))
  /\ phase' = IF EndsRun(o', o'.root) /\ o'.br[o'.root].k = 0 THEN "refused" ELSE "graph"
  /\ UNCHANGED << parsed, alter, conv >>

Init == ParserInit /\ alter = FALSE

Final == {"done", "error", "refused", "invalid"}

Stopped == phase \in Final /\ UNCHANGED vars

Next ==
  \/ Reduce /\ UNCHANGED alter
  \/ Finish /\ UNCHANGED alter
  \/ BeginOptimize \/ BlocksPass \/ JumpsPass \/ PullsPass \/ InternPass
  \/ Convert /\ UNCHANGED alter
  \/ Stopped

(* A compilation runs in one goroutine, which goes on until it is done.    *)
(* That is the weak fairness of Next: another step is possible in every    *)
(* phase that is not final, or TLC would report a deadlock.                *)
GoesOn == []<><< TRUE >>_vars \/ <>[](phase \in Final)

Spec == Init /\ [][Next]_vars /\ GoesOn

-----------------------------------------------------------------------------
(* "expression rejects all packets" is only said of such expressions. *)
RefusedRejectsAll ==
  phase = "refused" => \A p \in Meanings : Meant[p] # "yes"

(* Every compilation comes to an end: the optimizer stops although a pass  *)
(* may undo what another did, and the conversion stops starting over.      *)
CompileEnds == <>(phase \in Final)
=============================================================================
