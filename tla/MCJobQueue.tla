----------------------------- MODULE MCJobQueue -----------------------------
(* Small instances of JobQueue for TLC: ids are interchangeable.           *)
EXTENDS JobQueue, TLC

CONSTANTS t1, t2, t3, t4

MCJid == {t1, t2, t3, t4}
Ids == Permutations(MCJid)
=============================================================================
