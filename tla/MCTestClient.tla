---------------------------- MODULE MCTestClient ----------------------------
(***************************************************************************)
(* Instances of TestClient for TLC: calls that take everything once, that  *)
(* drain one kind under the cap of two turns, and that drain everything    *)
(* but one kind with room to spare.                                        *)
(***************************************************************************)
EXTENDS TestClient, TLC

CONSTANTS c1, c2, mail, audit

MCCalls == {c1, c2}
MCKinds == {mail, audit}

Once == [recursive |-> FALSE, maxIterations |-> 1000,
         only |-> {}, except |-> {}, keep |-> MCKinds]
DrainMail == [recursive |-> TRUE, maxIterations |-> 2,
              only |-> {mail}, except |-> {}, keep |-> MCKinds]
DrainOthers == [recursive |-> TRUE, maxIterations |-> 1000,
                only |-> {}, except |-> {audit}, keep |-> MCKinds]
KeepAudit == [recursive |-> TRUE, maxIterations |-> 1000,
              only |-> {}, except |-> {}, keep |-> {audit}]

MCOptions == {Once, DrainMail, DrainOthers, KeepAudit}

CallSymmetry == Permutations(MCCalls)
=============================================================================
