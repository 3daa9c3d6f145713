------------------------------ MODULE QueryLog ------------------------------
(***************************************************************************)
(* The query log tab (QueryLogTab of views/Explore.tsx): the newest queries *)
(* that match the filters, page by page.  A change of a filter or a refresh *)
(* reloads the first page and cancels the reload before it; the button      *)
(* below the rows asks for the next page, at the number of rows shown, and  *)
(* nothing cancels that.  The server knows only the filter "error": the     *)
(* rows of status "success" are picked from what was loaded.  The other     *)
(* filters (text, user, kind, table, duration) act as "error" does.         *)
(*                                                                         *)
(* Each page is read by itself (handleQuerySamples of internal/web/         *)
(* history.go): from the collector's copy, and from ClickHouse's own log    *)
(* where the copy has no rows or cannot be read.                            *)
(***************************************************************************)
EXTENDS Naturals, Sequences, FiniteSets

CONSTANTS
    PageSize,
    PerSecond, \* queries that end within one second, which event_time counts
    MaxRows,   \* bound: queries
    MaxReloads \* bound

ConstantsOK ==
    /\ PageSize \in Nat \ {0} /\ PerSecond \in Nat \ {0}
    /\ MaxRows \in Nat /\ MaxReloads \in Nat

Statuses == {"all", "success", "error"}
Sources == {"query_samples", "query_log"}

VARIABLES
    log,      \* the queries in the order they ended: whether with an exception
    copied,   \* those in ch_analyzer.query_samples
    retained, \* those in system.query_log
    status,   \* statusFilter
    firstPage,  \* the queries shown that the reload brought
    pagesBelow, \* and those that the button did
    length,   \* rows.length, which counts a query twice that is there twice
    reload,   \* the reload that is not cancelled: <<its answer>>, or <<>>
    more,     \* the answer to the button, or <<>>
    loading, loadingMore, exhausted, error,
    reloads,
    crossed,  \* history: a page below was on its way when the rows were reloaded
    pagesOf   \* history: the sources of which each page shown was the page asked for

sources == <<log, copied, retained>>
rows == firstPage \cup pagesBelow

state == <<status, firstPage, pagesBelow, length, loading, loadingMore, exhausted, error>>
vars == <<sources, state, reload, more, reloads, crossed, pagesOf>>

Queries == 1 .. MaxRows
Answer == [page : SUBSET Queries, of : SUBSET Sources]

TypeOK ==
    /\ log \in Seq(BOOLEAN) /\ status \in Statuses
    /\ copied \subseteq Queries /\ retained \subseteq Queries /\ pagesOf \subseteq Sources
    /\ firstPage \subseteq Queries /\ pagesBelow \subseteq Queries /\ length \in Nat
    /\ reload \in Seq(Answer) /\ more \in Seq(Answer)
    /\ Len(reload) <= 1 /\ Len(more) <= 1
    /\ {loading, loadingMore, exhausted, error, crossed} \subseteq BOOLEAN
    /\ reloads \in 0 .. MaxReloads

-----------------------------------------------------------------------------
(* What the server finds for the filters; it has errors_only, but nothing   *)
(* for the successes.                                                       *)
Matching(source, s) ==
    {nr \in (IF source = "query_samples" THEN copied ELSE retained) : s = "error" => log[nr]}

(* ORDER BY event_time DESC LIMIT PageSize OFFSET offset: the queries of a  *)
(* second come in any order.                                                *)
Second(nr) == (nr - 1) \div PerSecond
Window(offset) == offset .. offset + PageSize - 1

Reads(source, s, offset) ==
    LET found == Matching(source, s)
        Places(nr) ==
            LET before == Cardinality({m \in found : Second(m) > Second(nr)})
            IN  before .. before + Cardinality({m \in found : Second(m) = Second(nr)}) - 1
    IN {page \in SUBSET found : \A nr \in found :
            Cardinality({m \in page : Second(m) = Second(nr)})
                = Cardinality(Places(nr) \cap Window(offset))}

(* The page that goes on where one of the newer queries would have ended.   *)
Page(source, s, offset) ==
    {nr \in Matching(source, s) :
        Cardinality({m \in Matching(source, s) : m > nr}) \in Window(offset)}

(* handleQuerySamples: the copy's rows; if there are none, or it cannot be  *)
(* read, those of the log at the same offset; and none if that fails too.   *)
Answers(s, offset) ==
    LET pages == (Reads("query_samples", s, offset) \ {{}})
                     \cup Reads("query_log", s, offset) \cup {{}}
    IN {[page |-> page, of |-> {source \in Sources : page = Page(source, s, offset)}] :
            page \in pages}

displayRows == {nr \in rows : status = "success" => ~log[nr]}

(* The button is there, below rows.                                         *)
MoreOffered == ~loading /\ displayRows # {} /\ ~exhausted

(* The effect at the mount.                                                 *)
Init ==
    /\ log = <<>> /\ copied = {} /\ retained = {} /\ status = "all"
    /\ firstPage = {} /\ pagesBelow = {} /\ length = 0
    /\ reload = <<[page |-> {}, of |-> Sources]>> /\ more = <<>>
    /\ loading = TRUE /\ loadingMore = FALSE /\ exhausted = FALSE /\ error = FALSE
    /\ reloads = 0 /\ crossed = FALSE /\ pagesOf = {}

(* A query ends.                                                            *)
Arrive(exception) ==
    /\ Len(log) < MaxRows
    /\ log' = Append(log, exception)
    /\ retained' = retained \cup {Len(log')}
    /\ UNCHANGED <<copied, state, reload, more, reloads, crossed, pagesOf>>

(* The log forgets its oldest query.                                        *)
Expire ==
    /\ \E oldest \in retained :
          /\ \A nr \in retained : oldest <= nr
          /\ retained' = retained \ {oldest}
    /\ UNCHANGED <<log, copied, state, reload, more, reloads, crossed, pagesOf>>

(* QuerySamplesCollector copies queries of later seconds than it has copied *)
(* from, without those of its own database and, of many, the last.  That it *)
(* copies some twice after a batch that failed is left out.                 *)
Collect ==
    /\ \E new \in SUBSET {nr \in retained : \A m \in copied : Second(nr) > Second(m)} :
          new # {} /\ copied' = copied \cup new
    /\ UNCHANGED <<log, retained, state, reload, more, reloads, crossed, pagesOf>>

(* The effect of filterKey: a filter, the range, or the refresh tick.       *)
Reload(s) ==
    /\ reloads < MaxReloads /\ reloads' = reloads + 1
    /\ status' = s
    /\ \E answer \in Answers(s, 0) : reload' = <<answer>>
    /\ loading' = TRUE /\ error' = FALSE /\ exhausted' = FALSE
    /\ crossed' = (more # <<>>)
    /\ UNCHANGED <<sources, firstPage, pagesBelow, length, loadingMore, more, pagesOf>>

Reloaded ==
    /\ reload # <<>> /\ reload' = <<>>
    /\ LET page == reload[1].page IN
          /\ firstPage' = page /\ pagesBelow' = {} /\ length' = Cardinality(page)
          /\ exhausted' = (exhausted \/ Cardinality(page) < PageSize)
    /\ pagesOf' = reload[1].of
    /\ loading' = FALSE
    /\ UNCHANGED <<sources, status, loadingMore, error, more, reloads, crossed>>

ReloadFails ==
    /\ reload # <<>> /\ reload' = <<>>
    /\ error' = TRUE /\ loading' = FALSE
    /\ UNCHANGED <<sources, status, firstPage, pagesBelow, length, loadingMore, exhausted, more,
                   reloads, crossed, pagesOf>>

LoadMore ==
    /\ MoreOffered /\ ~loadingMore
    /\ \E answer \in Answers(status, length) : more' = <<answer>>
    /\ loadingMore' = TRUE
    /\ UNCHANGED <<sources, status, firstPage, pagesBelow, length, loading, exhausted, error,
                   reload, reloads, crossed, pagesOf>>

MoreLoaded ==
    /\ more # <<>> /\ more' = <<>>
    /\ LET page == more[1].page IN
          /\ pagesBelow' = pagesBelow \cup page /\ length' = length + Cardinality(page)
          /\ exhausted' = (exhausted \/ Cardinality(page) < PageSize)
    /\ pagesOf' = pagesOf \cap more[1].of
    /\ loadingMore' = FALSE
    /\ UNCHANGED <<sources, status, firstPage, loading, error, reload, reloads, crossed>>

(* No answer, or an error that is not swallowed on the server.              *)
MoreFails ==
    /\ more # <<>> /\ more' = <<>>
    /\ loadingMore' = FALSE
    /\ UNCHANGED <<sources, status, firstPage, pagesBelow, length, loading, exhausted, error,
                   reload, reloads, crossed, pagesOf>>

Next ==
    \/ \E exception \in BOOLEAN : Arrive(exception)
    \/ Expire \/ Collect
    \/ \E s \in Statuses : Reload(s)
    \/ Reloaded \/ ReloadFails
    \/ LoadMore \/ MoreLoaded \/ MoreFails

Spec == Init /\ [][Next]_vars

-----------------------------------------------------------------------------
(* The pages fit together, also when queries have arrived, were copied or   *)
(* forgotten between two of them (a row may then be there twice, but none   *)
(* is left out): every matching query of the source that is not newer than  *)
(* the first row and not older than the oldest one is shown, and when "End  *)
(* of results" is, so are all the older ones.  This is said of a source     *)
(* whose pages the answers were: not if one came from the other source, or  *)
(* was empty because neither could be read, or the edge of a page fell      *)
(* between queries of one second; and not if a page below was asked for     *)
(* before a reload and answered after it.                                   *)
NothingSkipped ==
    ~loading /\ ~error /\ ~crossed =>
        \A source \in pagesOf : \A nr \in Matching(source, status) :
            /\ \E shown \in firstPage : nr <= shown
            /\ exhausted \/ \E shown \in rows : shown <= nr
            => nr \in rows
=============================================================================
