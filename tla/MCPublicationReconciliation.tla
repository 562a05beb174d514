--------------------- MODULE MCPublicationReconciliation ----------------------
(* Instances of PublicationReconciliation for TLC.                           *)
EXTENDS PublicationReconciliation, TLC

CONSTANTS d1, d2, z, n1, k1, k2, article, preprint

MCRecords == 1..3
MCPubs == 1..5

(* The records with the smallest identifiers have the last priority.         *)
MCRank == [r \in MCRecords |-> 10 - r]

Says(strong, weak, keys) ==
    [id |-> None, pub |-> None, pubDoi |-> None,
     strong |-> strong, weak |-> weak, keys |-> keys, work |-> FALSE,
     primary |-> None, derived |-> None, type |-> article,
     year |-> TRUE, founds |-> TRUE, matchable |-> TRUE]

(* Two DOIs, two keys, and a record that nothing links to another one: the   *)
(* second DOI with the second key is the first with the first one, renamed.  *)
Few ==
    {Says({d1}, {}, {k1}), Says({d1}, {}, {k2}), Says({d2}, {}, {k1})}
    \cup {Says({}, {}, {k1}), Says({}, {}, {})}

(* A deposit, and a record that nothing links to it.                         *)
Deposited == {Says({z}, {}, {}), Says({}, {}, {})}

(* Records that only keys link.                                              *)
Keyed == {Says({}, {}, k) : k \in SUBSET {k1, k2}}

(* Records of every kind: works, derived from the record of another one,     *)
(* deposits, two DOIs, without a year, out of the perimeter, excluded.       *)
Kinds ==
    {Says({d}, {}, {k1}) : d \in {d1, d2}}
    \cup {Says({}, {d1}, {k1}), Says({d1, d2}, {}, {}), Says({}, {d1, d2}, {k2})}
    \cup {Says({z}, {}, {k1}), Says({z, d1}, {}, {k2}), Says({}, {}, {k1, k2})}
    \cup {[Says({}, {}, {k1, k2}) EXCEPT !.type = preprint]}
    \cup {[Says({d2}, {}, {k2}) EXCEPT !.type = preprint]}
    \cup {[Says({}, {}, k) EXCEPT !.work = TRUE] : k \in {{k1}, {k1, k2}}}
    \cup {[Says({d1}, {}, {k1}) EXCEPT !.derived = n1], [Says({d2}, {}, {k1}) EXCEPT !.primary = n1]}
    \cup {[Says({}, {}, {k1}) EXCEPT !.year = FALSE]}
    \cup {[Says({d1}, {}, {k2}) EXCEPT !.founds = FALSE]}
    \cup {[Says({d1}, {}, {k1}) EXCEPT !.matchable = FALSE]}

Every == Few \cup Kinds

(* The stock is normalized before the first reconciliation; a last record    *)
(* may come later.                                                           *)
StockOf(contents) ==
    /\ issued \in (Cardinality(Records) - 1)..Cardinality(Records)
    /\ \E stock \in [1..issued -> contents] :
          content = [r \in Records |-> IF r <= issued THEN stock[r] ELSE None]
    /\ removed = [r \in Records |-> {}]
    /\ pub = [r \in Records |-> None]
    /\ pubs = {}
    /\ created = 0
    /\ redirect = [p \in Pubs |-> None]
    /\ merges = {}
    /\ queue = 1..issued
    /\ grouping = {}
    /\ aligned = [p \in Pubs |-> {}]
    /\ purged = {}
    /\ fresh = FALSE
    /\ broken = "none"

StockSpec == StockOf(Contents) /\ writes = 0 /\ [][Next]_vars

(* A stock of few kinds that is written again, or one of every kind.         *)
MixedInit ==
    \/ StockOf(Few) /\ writes = 0
    \/ StockOf(Kinds) /\ writes = MaxWrites

MixedSpec == MixedInit /\ [][Next]_vars
==============================================================================
