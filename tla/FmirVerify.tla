----------------------------- MODULE FmirVerify -----------------------------
(***************************************************************************)
(* The FMIR verifier (fors-fmir verify.rs): the structural rules a lowered *)
(* body must obey before any engine runs it.  Verify(f, secret) is the set *)
(* of rejections of the body f, as Lowering makes it, whose values in      *)
(* secret carry the secret flag.  Rows that have no counterpart in the     *)
(* modelled bodies (tile operations, alias seeds, spawn captures, reduce   *)
(* rows) have no rejection here.                                           *)
(***************************************************************************)
EXTENDS Integers, Sequences, SequencesExt, FiniteSets

BODY_END == -1
NONE == 0

Successors(t) ==
    CASE t.op = "br" -> {t.a}
      [] t.op \in {"condbr", "trybr"} -> {t.b, t.c}
      [] t.op = "switch" -> {t.b} \cup {t.c[i].target : i \in DOMAIN t.c}
      [] OTHER -> {}

\* check_defer_bodies: everything reached from the body's first block
RECURSIVE Reach(_, _)
Reach(f, seen) ==
    LET next == seen \cup UNION {Successors(f.blocks[b].term) : b \in seen \cap DOMAIN f.blocks}
    IN IF next = seen THEN seen ELSE Reach(f, next)
CheckDeferBodies(f) ==
    {"DeferBodyMalformed" : d \in {i \in DOMAIN f.defers :
        LET body == f.defers[i].body
            blocks == Reach(f, {body})
        IN \/ body \notin DOMAIN f.blocks
           \/ blocks \ {BODY_END} \notin SUBSET DOMAIN f.blocks
           \/ \E b \in blocks \ {BODY_END} : f.blocks[b].term.op \in {"ret", "raise"}
           \/ BODY_END \notin blocks}}

-----------------------------------------------------------------------------
(* Exit edges                                                              *)

\* check_edge_scopes: the scopes left are the parent chain from the block's
\* own scope, and the successor is inside what is left standing
RECURSIVE Inside(_, _, _)
Inside(f, s, stop) == s = stop \/ (s \in DOMAIN f.scopes /\ Inside(f, f.scopes[s].parent, stop))
ScopesAChain(f, e) ==
    LET chain == e.scopes IN
    \/ chain = <<>>
    \/ /\ chain[1] = f.blocks[e.from].scope
       /\ \A i \in 1..(Len(chain) - 1) : chain[i] \in DOMAIN f.scopes /\ chain[i + 1] = f.scopes[chain[i]].parent
       /\ Last(chain) \in DOMAIN f.scopes
       /\ \/ e.to = NONE
          \/ e.to \notin DOMAIN f.blocks
          \/ Inside(f, f.blocks[e.to].scope, f.scopes[Last(chain)].parent)

\* check_edge_shape
IsSuccessor(t, e) == IF t.op \in {"ret", "raise"} THEN e.to = NONE ELSE e.to \in Successors(t)
WantKind(t, e) ==
    CASE t.op \in {"ret", "br", "switch"} -> {"normal"}
      [] t.op = "raise" -> {"error"}
      [] t.op = "trybr" -> IF e.to = t.b THEN {"normal"} ELSE {"error"}
      [] OTHER -> {"normal", "error"}

\* check_edge_pending: exit.rs expected_pending over the edge's own scopes
Runs(f, s, kind) ==
    f.scopes[s].defer # 0 /\ (f.defers[f.scopes[s].defer].kind = "defer" \/ kind = "error")
WantPending(f, e) ==
    LET left == SelectSeq(e.scopes, LAMBDA s : s \in DOMAIN f.scopes /\ Runs(f, s, e.kind))
    IN [i \in DOMAIN left |-> f.scopes[left[i]].defer]
Obligations(f, e) == {f.scopes[s].owed : s \in Range(e.scopes) \cap DOMAIN f.scopes} \ {0}

EdgeFaults(f, i) ==
    LET e == f.exits[i]
        t == f.blocks[e.from].term
        bad(p, code) == IF p THEN {code} ELSE {}
    IN IF e.from \notin DOMAIN f.blocks THEN {"Malformed"}
       ELSE bad(t.op = "trap", "TrapHasExitEdge")
            \cup bad(\E j \in 1..(i - 1) : f.exits[j].from = e.from /\ f.exits[j].to = e.to, "ExitEdgeDuplicate")
            \cup bad(~IsSuccessor(t, e) /\ t.op # "trap", "ExitEdgeNotASuccessor")
            \cup bad(IsSuccessor(t, e) /\ e.kind \notin WantKind(t, e), "ExitEdgeWrongKind")
            \cup bad(~ScopesAChain(f, e), "ExitEdgeScopesNotAChain")
            \cup bad(e.pending # WantPending(f, e),
                     IF SortSeq(e.pending, <) = SortSeq(WantPending(f, e), <)
                     THEN "ExitEdgeWrongPendingOrder" ELSE "ExitEdgeWrongPendingMultiset")
            \cup bad(e.discharges \ Obligations(f, e) # {}, "ExitEdgeUnknownDischarge")
            \cup bad(Obligations(f, e) \ e.discharges # {}, "ExitEdgeMissingDischarge")
CheckExitEdges(f) == UNION {EdgeFaults(f, i) : i \in DOMAIN f.exits}

-----------------------------------------------------------------------------
(* Secrets: a value computed from a secret is secret, and control, memory  *)
(* addresses, traps, contract checks and the host may not depend on one    *)

\* propagation_operands: the operations through which the flag travels
PropagationOperands(i) ==
    CASE i.op \in {"add", "sub", "wrapadd", "lt", "eq", "and", "or"} -> {i.a, i.b}
      [] i.op \in {"not", "field", "discr", "payload"} -> {i.a}
      [] i.op = "agg" -> Range(i.args)
      [] OTHER -> {}
CheckSecretPropagation(f, secret) ==
    {"SecretPropagationViolated" : v \in {j \in DOMAIN f.code :
        PropagationOperands(f.code[j]) \cap secret # {} /\ j \notin secret}}
CheckOneSecretRejection(i, secret) ==
    CASE i.op = "index" -> IF i.b \in secret THEN {"SecretBranchOrIndex"} ELSE {}
      [] i.op \in {"add", "sub"} -> IF {i.a, i.b} \cap secret # {} THEN {"SecretTrappingOp"} ELSE {}
      [] i.op = "check" -> IF i.a \in secret THEN {"SecretInContractCheck"} ELSE {}
      [] i.op = "write" -> IF i.a \in secret THEN {"SecretIntrinsicArg"} ELSE {}
      [] OTHER -> {}
CheckSecretBranch(f, t, secret) ==
    IF t.op \notin {"condbr", "switch"} \/ t.a \notin secret THEN {}
    ELSE {"SecretBranchOrIndex"} \cup
         {"SecretRaiseCondition" : b \in {c \in Successors(t) \cap DOMAIN f.blocks :
                                            t.op = "condbr" /\ f.blocks[c].term.op = "raise"}}

Verify(f, secret) ==
    CheckSecretPropagation(f, secret)
    \cup UNION {CheckOneSecretRejection(f.code[j], secret) : j \in DOMAIN f.code}
    \cup UNION {CheckSecretBranch(f, f.blocks[b].term, secret) : b \in DOMAIN f.blocks}
    \cup CheckDeferBodies(f)
    \cup CheckExitEdges(f)

=============================================================================
