---------------------------- MODULE MCPipelineRun ----------------------------
(***************************************************************************)
(* Instances of PipelineRun: the orchestrator's own phase, the harvest of  *)
(* two sources in parallel, one of which the daily mode leaves aside, two  *)
(* lookups in parallel, and an enrichment that the next run reads.         *)
(***************************************************************************)
EXTENDS PipelineRun, TLC
CONSTANTS hal, other, crossref, datacite, relations

MCTasks == {hal, other, crossref, datacite, relations}
Lookups == {crossref, datacite}
MCBlocks == <<
    [phase |-> 0, tasks |-> {}],
    [phase |-> 1, tasks |-> {hal, other}],
    [phase |-> 2, tasks |-> Lookups],
    [phase |-> 3, tasks |-> {relations}]>>
MCReads == [t \in MCTasks |->
    CASE t \in {hal, other} -> {"staging"}
      [] t \in Lookups -> {"staging", "relations"}
      [] t = relations -> {"found"}]
MCWrites == [t \in MCTasks |->
    CASE t \in {hal, other} -> {"staging"}
      [] t \in Lookups -> {"found"}
      [] t = relations -> {"relations"}]
MCSourceOf == [t \in MCTasks |-> IF t = relations THEN None ELSE t]

Run(daily) ==
    [from |-> 1, only |-> None, extras |-> TRUE, daily |-> daily, sources |-> MCTasks, years |-> Docs]

(* A daily run, a full one without the enrichments nor one of the lookups, *)
(* one resumed at the enrichments, one of the harvest alone without the    *)
(* incremental source.                                                     *)
MCOptions ==
    {Run(TRUE), [Run(FALSE) EXCEPT !.extras = FALSE, !.sources = MCTasks \ {datacite}],
     [Run(FALSE) EXCEPT !.from = 3], [Run(TRUE) EXCEPT !.only = 1, !.sources = MCTasks \ {hal}]}

(* Any process may be launched as any other.                               *)
Symmetry == Permutations(Launches)
===============================================================================
