----------------------- MODULE MCMetadataCorrection -------------------------
(***************************************************************************)
(* Small instances of MetadataCorrection.                                  *)
(***************************************************************************)
EXTENDS MetadataCorrection, TLC

NoRoles == [i \in Ids |-> None]
Plain == [source |-> "hal", type |-> "article", title |-> "t", names |-> {"n"}, urls |-> {}, serial |-> None,
          role |-> NoRoles, titled |-> None, conference |-> FALSE, origin |-> None, relations |-> {}]

MCDoiKind == "10.1/book" :> "chapter" @@ "10.2/data" :> "plain"
MCRegistrant == "10.1/book" :> "10.1" @@ "10.2/data" :> "10.2"
MCAlike == {{"t", "t long"}}
MCDistant == {{"t", "u"}}

(* A book of Crossref, a chapter of HAL that cites the DOI of its book and *)
(* has a deposit of its own, a copy of the book by OpenAlex.               *)
Books ==
    "a" :> [Plain EXCEPT !.source = "crossref", !.type = "book", !.role["10.1/book"] = "primary"] @@
    "b" :> [Plain EXCEPT !.type = "book_chapter", !.title = "u", !.role["10.1/book"] = "secondary", !.role["hal"] = "derived"] @@
    "c" :> [Plain EXCEPT !.source = "openalex", !.type = "book", !.role["10.1/book"] = "primary", !.role["hal"] = "secondary"]

(* A thesis of HAL, its copy by ScanR, the article that took the DOI.      *)
Theses ==
    "a" :> [Plain EXCEPT !.type = "thesis", !.urls = {"tel"}, !.serial = "s", !.role["tel"] = "derived", !.role["10.2/data"] = "secondary"] @@
    "b" :> [Plain EXCEPT !.source = "scanr", !.type = "other", !.origin = "a", !.role["tel"] = "derived"] @@
    "c" :> [Plain EXCEPT !.source = "crossref", !.title = "u", !.names = {"m"}, !.role["10.2/data"] = "primary"]

(* A dataset, a piece of it, a citation of it by an aggregator.            *)
Data ==
    "a" :> [Plain EXCEPT !.source = "datacite", !.type = "dataset", !.role["10.2/data"] = "primary"] @@
    "b" :> [Plain EXCEPT !.source = "datacite", !.type = "dataset", !.role["10.1/book"] = "primary",
                         !.relations = {[rule |-> "piece", doi |-> "10.2/data"]}] @@
    "c" :> [Plain EXCEPT !.source = "openalex", !.type = "dataset", !.role["10.1/book"] = "primary"]

(* The chapter under the title of its book, the thesis without serial.     *)
BooksAgree == [Books EXCEPT !["b"].title = "t long"]
BooksCopied == [Books EXCEPT !["c"].title = "u", !["c"].role["10.1/book"] = "secondary", !["c"].role["hal"] = None]
ThesesAlone == [Theses EXCEPT !["a"].serial = None]

(* A record without type that cites the DOI of a chapter, which its book   *)
(* has too.                                                                *)
Swing ==
    "a" :> [Plain EXCEPT !.source = "crossref", !.type = "book", !.role["10.1/book"] = "primary"] @@
    "b" :> [Plain EXCEPT !.type = "other", !.title = "u", !.role["10.1/book"] = "secondary"] @@
    "c" :> [Plain EXCEPT !.type = "book_chapter", !.title = "u", !.role["10.2/data"] = "primary"]

(* An issue of a journal, its contents without serial, an erratum.         *)
Issue ==
    "a" :> [Plain EXCEPT !.source = "crossref", !.type = "journal_issue", !.serial = "s", !.role["10.2/data"] = "primary"] @@
    "b" :> [Plain EXCEPT !.title = "u", !.role["10.2/data"] = "secondary"] @@
    "c" :> [Plain EXCEPT !.source = "openalex", !.type = "book_chapter", !.title = "t long", !.urls = {"theses.fr"}, !.conference = TRUE, !.role["10.2/data"] = "secondary"]

MCStocks == {Books, BooksAgree, BooksCopied, Theses, ThesesAlone, Data, Swing, Issue}
==============================================================================
