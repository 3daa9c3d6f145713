----------------------------- MODULE ViewProofs -----------------------------
(* How the views load, ViewLoaders, and what they make of the rows that     *)
(* they have, the parts of BrowserLists.  For any number of views, of       *)
(* requests and of rows.                                                    *)
EXTENDS ViewLoaders, BrowserLists, SequenceTheorems, FiniteSetTheorems, TLAPS

-----------------------------------------------------------------------------
(* The inductive invariant                                                  *)

(* What is still waited for was asked about what is selected now.           *)
LiveIsForSelection == Follows /\ loader.cleanup => \A r \in Live : IsFor(r.answer, selection)

(* A loader that drops its data before it asks about something else.        *)
BlankedIsCurrent ==
    Follows /\ loader.cleanup /\ loader.uses \subseteq loader.blanks /\ shown # Nothing =>
        IsFor(shown, selection)

(* A loader that shows that it is loading.                                  *)
MarkedWhenStale ==
    Candid /\ loader.spinner /\ shown # Nothing =>
        IsFor(shown, selection) \/ loading \/ (failed /\ loader.banner)

(* One request at a time is waited for, and nothing is newer than the data. *)
OneIsLive ==
    loader.cleanup /\ loader.poll = "none" => \A r1, r2 \in Live : r1 = r2

NothingIsNewer ==
    /\ \A r \in requests : r.answer.version <= version
    /\ shown # Nothing => shown.version <= version

LiveIsNewer ==
    loader.cleanup /\ loader.poll = "none" /\ shown # Nothing =>
        \A r \in Live : r.answer.version >= shown.version

IInv ==
    /\ TypeOK
    /\ LiveIsForSelection /\ BlankedIsCurrent /\ MarkedWhenStale
    /\ OneIsLive /\ NothingIsNewer /\ LiveIsNewer

-----------------------------------------------------------------------------
(* A run of the effect                                                      *)

LEMMA LoaderTyped ==
  ASSUME TypeOK
  PROVE  /\ loader \in LoaderType
         /\ loader.uses \subseteq Inputs
  BY LoadersAssumption DEF TypeOK, LoaderType

LEMMA AskTyped ==
  ASSUME TypeOK, asked < MaxRequests, NEW sel \in Selections
  PROVE  /\ Ask(sel) \in Request
         /\ Ask(sel).answer.for = sel /\ Ask(sel).answer.version = version
         /\ ~Ask(sel).cancelled
<1>1. asked + 1 \in 1 .. MaxRequests
  BY BoundsAssumption DEF TypeOK
<1> QED
  BY <1>1 DEF Ask, Request, Answer, TypeOK

LEMMA CancelledTyped ==
  ASSUME NEW open \in SUBSET Request
  PROVE  /\ Cancelled(open) \in SUBSET Request
         /\ loader.cleanup => \A r \in Cancelled(open) : r.cancelled
         /\ \A r \in Cancelled(open) : \E q \in open : r.answer = q.answer
  BY DEF Cancelled, Request

(* Types, the requests that are waited for afterwards, and their age.       *)
LEMMA RunFacts ==
  ASSUME TypeOK, NothingIsNewer, NEW i, NEW sel \in Selections, Run(i, sel),
         UNCHANGED <<loader, version>>
  PROVE  /\ requests' \subseteq Request /\ asked' \in 0 .. MaxRequests
         /\ shown' \in {shown, Nothing} /\ loading' /\ failed' \in BOOLEAN
         /\ applied' = applied /\ overtaken' = overtaken
         /\ loader.cleanup => Live' = {Ask(sel)}
         /\ NothingIsNewer'
<1>1. asked < MaxRequests /\ requests' = Cancelled(requests) \cup {Ask(sel)}
  BY DEF Run
<1>2. Ask(sel) \in Request /\ Ask(sel).answer.version = version /\ ~Ask(sel).cancelled
  BY <1>1, AskTyped
<1>3. requests \in SUBSET Request
  BY DEF TypeOK
<1>4. requests' \subseteq Request
  BY <1>1, <1>2, <1>3, CancelledTyped
<1>5. asked' \in 0 .. MaxRequests
  BY <1>1, BoundsAssumption DEF Run, TypeOK
<1>6. ASSUME loader.cleanup PROVE Live' = {Ask(sel)}
  BY <1>1, <1>2, <1>3, <1>6, CancelledTyped DEF Live
<1>7. \A r \in requests' : r.answer.version <= version
  <2> SUFFICES ASSUME NEW r \in requests' PROVE r.answer.version <= version
    OBVIOUS
  <2>1. CASE r = Ask(sel)
    BY <1>2, <2>1, BoundsAssumption DEF TypeOK
  <2>2. CASE r \in Cancelled(requests)
    BY <1>3, <2>2, CancelledTyped DEF NothingIsNewer
  <2> QED
    BY <1>1, <2>1, <2>2
<1>8. shown' \in {shown, Nothing} /\ loading' /\ failed' \in BOOLEAN
      /\ applied' = applied /\ overtaken' = overtaken
  BY DEF Run, history, TypeOK
<1> QED
  BY <1>4, <1>5, <1>6, <1>7, <1>8 DEF NothingIsNewer

LEMMA RunKeepsIInv ==
  ASSUME IInv, NEW i \in Inputs \cup {"refresh", "mount"},
         selection' \in Selections,
         \A j \in Inputs \ {i} : selection'[j] = selection[j],
         Run(i, selection'), UNCHANGED <<loader, version>>
  PROVE  IInv'
<1> TypeOK /\ NothingIsNewer
  BY DEF IInv
<1>1. /\ requests' \subseteq Request /\ asked' \in 0 .. MaxRequests
      /\ shown' \in {shown, Nothing} /\ loading' /\ failed' \in BOOLEAN
      /\ applied' = applied /\ overtaken' = overtaken
      /\ loader.cleanup => Live' = {Ask(selection')}
      /\ NothingIsNewer'
  BY RunFacts
<1>2. /\ Ask(selection').answer.for = selection'
      /\ Ask(selection').answer.version = version
  BY AskTyped DEF Run
<1>3. TypeOK'
  BY <1>1 DEF TypeOK, Run
<1>4. LiveIsForSelection'
  BY <1>1, <1>2 DEF LiveIsForSelection, Follows, IsFor
<1>5. BlankedIsCurrent'
  <2> SUFFICES ASSUME Follows, loader.cleanup, loader.uses \subseteq loader.blanks, shown' # Nothing
               PROVE  IsFor(shown', selection')
    BY DEF BlankedIsCurrent, Follows, IsFor
  <2>1. i \notin loader.blanks /\ shown' = shown
    BY DEF Run
  <2>2. IsFor(shown, selection)
    BY <2>1 DEF IInv, BlankedIsCurrent
  <2>3. \A j \in loader.uses : selection'[j] = selection[j]
    BY <2>1, LoaderTyped
  <2> QED
    BY <2>1, <2>2, <2>3 DEF IsFor
<1>6. MarkedWhenStale'
  BY <1>1 DEF MarkedWhenStale
<1>7. OneIsLive'
  BY <1>1 DEF OneIsLive
<1>8. LiveIsNewer'
  BY <1>1, <1>2 DEF LiveIsNewer, NothingIsNewer
<1> QED
  BY <1>1, <1>3, <1>4, <1>5, <1>6, <1>7, <1>8 DEF IInv

-----------------------------------------------------------------------------
(* The steps                                                                *)

LEMMA IInvInit ==
  ASSUME Init PROVE IInv
<1>1. Live = {} /\ shown = Nothing /\ requests = {}
  BY DEF Init, Live
<1>2. version \in 1 .. MaxVersion /\ asked \in 0 .. MaxRequests /\ applied \in 0 .. MaxRequests
  BY BoundsAssumption DEF Init
<1>3. TypeOK
  BY <1>2 DEF Init, TypeOK
<1> QED
  BY <1>1, <1>3 DEF IInv, LiveIsForSelection, BlankedIsCurrent, MarkedWhenStale,
     OneIsLive, NothingIsNewer, LiveIsNewer

LEMMA SelectKeepsIInv ==
  ASSUME IInv, NEW i \in Inputs, NEW v \in Values, Select(i, v)
  PROVE  IInv'
<1>1. selection' \in Selections /\ \A j \in Inputs \ {i} : selection'[j] = selection[j]
  BY DEF IInv, TypeOK, Select, Selections
<1>2. CASE i \in loader.deps
  BY <1>1, <1>2, RunKeepsIInv DEF Select
<1>3. CASE i \notin loader.deps
  <2>1. ~Follows
    BY <1>3 DEF Select, Follows
  <2>2. UNCHANGED <<loader, version, requests, asked, shown, loading, failed, applied, overtaken>>
    BY <1>3 DEF Select, component, history
  <2>3. ~Follows' /\ Live' = Live
    BY <2>1, <2>2 DEF Follows, Live
  <2>4. TypeOK'
    BY <1>1, <2>2 DEF IInv, TypeOK
  <2>5. LiveIsForSelection' /\ BlankedIsCurrent' /\ MarkedWhenStale'
    BY <2>3 DEF LiveIsForSelection, BlankedIsCurrent, MarkedWhenStale, Candid
  <2>6. OneIsLive' /\ NothingIsNewer' /\ LiveIsNewer'
    BY <2>2, <2>3 DEF IInv, OneIsLive, NothingIsNewer, LiveIsNewer
  <2> QED
    BY <2>4, <2>5, <2>6 DEF IInv
<1> QED
  BY <1>2, <1>3

LEMMA PollKeepsIInv ==
  ASSUME IInv, Poll
  PROVE  IInv'
<1>1. /\ requests' = requests \cup {Ask(selection)} /\ loader.poll # "none"
      /\ UNCHANGED <<loader, selection, version, shown, failed, applied, overtaken>>
      /\ loading => loading'
  BY DEF Poll, history
<1>2. /\ Ask(selection) \in Request
      /\ Ask(selection).answer.for = selection /\ Ask(selection).answer.version = version
  BY AskTyped, BoundsAssumption DEF Poll, IInv, TypeOK
<1>3. Live' \subseteq Live \cup {Ask(selection)}
  BY <1>1 DEF Live
<1>4. TypeOK'
  BY <1>1, <1>2, BoundsAssumption DEF IInv, TypeOK, Poll
<1>5. LiveIsForSelection' /\ BlankedIsCurrent' /\ MarkedWhenStale'
  BY <1>1, <1>2, <1>3
     DEF IInv, LiveIsForSelection, BlankedIsCurrent, MarkedWhenStale, Candid, Follows, IsFor
<1>6. OneIsLive' /\ LiveIsNewer'
  BY <1>1 DEF OneIsLive, LiveIsNewer
<1>7. NothingIsNewer'
  BY <1>1, <1>2 DEF IInv, NothingIsNewer, TypeOK
<1> QED
  BY <1>4, <1>5, <1>6, <1>7 DEF IInv

(* An outcome that is ignored.                                              *)
LEMMA IgnoredKeepsIInv ==
  ASSUME IInv, NEW r \in requests, requests' = requests \ {r},
         UNCHANGED <<loader, selection, version, asked, shown, loading, failed,
                     applied, overtaken>>
  PROVE  IInv'
<1>1. Live' \subseteq Live
  BY DEF Live
<1>2. TypeOK'
  BY DEF IInv, TypeOK
<1>3. LiveIsForSelection' /\ BlankedIsCurrent' /\ MarkedWhenStale'
  BY <1>1 DEF IInv, LiveIsForSelection, BlankedIsCurrent, MarkedWhenStale, Candid, Follows, IsFor
<1>4. OneIsLive' /\ NothingIsNewer' /\ LiveIsNewer'
  BY <1>1 DEF IInv, OneIsLive, NothingIsNewer, LiveIsNewer
<1> QED
  BY <1>2, <1>3, <1>4 DEF IInv

(* An outcome that is applied is that of a request still waited for.        *)
LEMMA AppliedKeepsIInv ==
  ASSUME IInv, NEW r \in requests, ~r.cancelled, requests' = requests \ {r}, Apply(r),
         UNCHANGED <<loader, selection, version, asked>>, failed' \in BOOLEAN,
         \/ shown' = r.answer
         \/ shown' = Nothing
         \/ shown' = shown /\ loader.failure # "empty" /\ failed'
  PROVE  IInv'
<1>1. r \in Live /\ Live' \subseteq Live \ {r}
  BY DEF Live
<1>2. /\ r \in Request /\ r.answer \in Answer
      /\ r.answer.nr \in 1 .. MaxRequests /\ r.answer.version <= version
  BY DEF IInv, TypeOK, NothingIsNewer, Request, Answer
<1>3. TypeOK'
  <2>1. applied' \in 0 .. MaxRequests
    BY <1>2, BoundsAssumption DEF Apply
  <2>2. overtaken' \in BOOLEAN /\ loading' \in BOOLEAN
    BY DEF Apply
  <2>3. shown' \in Answer \cup {Nothing}
    BY <1>2 DEF IInv, TypeOK
  <2> QED
    BY <2>1, <2>2, <2>3 DEF IInv, TypeOK
<1>4. LiveIsForSelection'
  BY <1>1 DEF IInv, LiveIsForSelection, Follows, IsFor
<1>5. ASSUME Follows, loader.cleanup PROVE IsFor(r.answer, selection)
  BY <1>1, <1>5 DEF IInv, LiveIsForSelection
<1>6. BlankedIsCurrent'
  BY <1>5 DEF IInv, BlankedIsCurrent, Follows, IsFor
<1>7. MarkedWhenStale'
  BY <1>5 DEF IInv, MarkedWhenStale, Candid, Follows, IsFor
<1>8. OneIsLive'
  BY <1>1 DEF IInv, OneIsLive
<1>9. NothingIsNewer'
  BY <1>2 DEF IInv, NothingIsNewer
<1>10. LiveIsNewer'
  <2>1. loader.cleanup /\ loader.poll = "none" => Live' = {}
    BY <1>1 DEF IInv, OneIsLive
  <2> QED
    BY <2>1 DEF LiveIsNewer
<1> QED
  BY <1>3, <1>4, <1>6, <1>7, <1>8, <1>9, <1>10 DEF IInv

LEMMA SucceedKeepsIInv ==
  ASSUME IInv, NEW r \in requests, Succeed(r)
  PROVE  IInv'
<1>1. CASE r.cancelled
  BY <1>1, IgnoredKeepsIInv DEF Succeed, component, history
<1>2. CASE ~r.cancelled
  <2>1. failed' \in BOOLEAN /\ shown' = r.answer /\ Apply(r)
    BY <1>2 DEF Succeed, IInv, TypeOK
  <2> QED
    BY <1>2, <2>1, AppliedKeepsIInv DEF Succeed
<1> QED
  BY <1>1, <1>2

LEMMA FailKeepsIInv ==
  ASSUME IInv, NEW r \in requests, Fail(r)
  PROVE  IInv'
<1>1. CASE r.cancelled
  BY <1>1, IgnoredKeepsIInv DEF Fail, component, history
<1>2. CASE ~r.cancelled
  <2>1. /\ failed' = TRUE /\ Apply(r)
        /\ shown' = Nothing \/ (shown' = shown /\ loader.failure # "empty")
    BY <1>2 DEF Fail
  <2> QED
    BY <1>2, <2>1, AppliedKeepsIInv DEF Fail
<1> QED
  BY <1>1, <1>2

LEMMA DataChangesKeepsIInv ==
  ASSUME IInv, DataChanges
  PROVE  IInv'
<1>1. /\ UNCHANGED <<loader, selection, requests, asked, shown, loading, failed, applied, overtaken>>
      /\ version' = version + 1 /\ version < MaxVersion
  BY DEF DataChanges, component, history
<1>2. version \in Nat /\ version' \in 1 .. MaxVersion
  BY <1>1, BoundsAssumption DEF IInv, TypeOK
<1>3. TypeOK'
  BY <1>1, <1>2 DEF IInv, TypeOK
<1>4. NothingIsNewer'
  <2>1. \A r \in requests : r.answer.version \in Nat
    BY DEF IInv, TypeOK, Request, Answer
  <2>2. shown # Nothing => shown.version \in Nat
    BY DEF IInv, TypeOK, Answer
  <2> QED
    BY <1>1, <1>2, <2>1, <2>2 DEF IInv, NothingIsNewer
<1>5. Live' = Live
  BY <1>1 DEF Live
<1>6. LiveIsForSelection' /\ BlankedIsCurrent' /\ MarkedWhenStale' /\ OneIsLive' /\ LiveIsNewer'
  BY <1>1, <1>5 DEF IInv, LiveIsForSelection, BlankedIsCurrent, MarkedWhenStale, OneIsLive,
     LiveIsNewer, Candid, Follows, IsFor
<1> QED
  BY <1>3, <1>4, <1>6 DEF IInv

LEMMA NextKeepsIInv ==
  ASSUME IInv, [Next]_vars
  PROVE  IInv'
<1>1. CASE Mount
  <2>1. selection' = selection /\ selection \in Selections
    BY <1>1 DEF Mount, IInv, TypeOK
  <2>2. Run("mount", selection') /\ UNCHANGED <<loader, version>>
    BY <1>1, <2>1 DEF Mount
  <2> QED
    BY <2>1, <2>2, RunKeepsIInv
<1>2. ASSUME NEW i \in Inputs, NEW v \in Values, Select(i, v) PROVE IInv'
  BY <1>2, SelectKeepsIInv
<1>3. CASE Refresh
  <2>1. selection' = selection /\ selection \in Selections
    BY <1>3 DEF Refresh, IInv, TypeOK
  <2>2. Run("refresh", selection') /\ UNCHANGED <<loader, version>>
    BY <1>3, <2>1 DEF Refresh
  <2> QED
    BY <2>1, <2>2, RunKeepsIInv
<1>4. CASE Poll
  BY <1>4, PollKeepsIInv
<1>5. ASSUME NEW r \in requests, Succeed(r) \/ Fail(r) PROVE IInv'
  BY <1>5, SucceedKeepsIInv, FailKeepsIInv
<1>6. CASE DataChanges
  BY <1>6, DataChangesKeepsIInv
<1>7. CASE UNCHANGED vars
  BY <1>7 DEF vars, component, history, IInv, TypeOK, LiveIsForSelection, BlankedIsCurrent,
     MarkedWhenStale, OneIsLive, NothingIsNewer, LiveIsNewer, Live, Candid, Follows, IsFor
<1> QED
  BY <1>1, <1>2, <1>3, <1>4, <1>5, <1>6, <1>7 DEF Next

(* The component's state, its requests and their ages stay what the source  *)
(* says they are, and the invariant behind the two theorems below holds,    *)
(* for every loader.                                                        *)
THEOREM LoaderInvariant == Spec => []IInv
<1>1. Init => IInv
  BY IInvInit
<1>2. IInv /\ [Next]_vars => IInv'
  BY NextKeepsIInv
<1> QED
  BY <1>1, <1>2, PTL DEF Spec

(* A view whose effect cancels its requests never shows, unmarked, the data *)
(* of another instance, range or filter than the selected one: whichever    *)
(* flags its loader has, however many requests overlap, and in whatever     *)
(* order they are answered or fail.                                         *)
THEOREM NothingStaleIsUnmarked == Spec => []NothingStaleUnmarked
<1>1. IInv => NothingStaleUnmarked
  <2> SUFFICES ASSUME IInv, Candid, shown # Nothing
               PROVE  IsFor(shown, selection) \/ (loading /\ loader.spinner)
                        \/ (failed /\ loader.banner)
    BY DEF NothingStaleUnmarked
  <2>1. CASE loader.spinner
    BY <2>1 DEF IInv, MarkedWhenStale
  <2>2. CASE ~loader.spinner
    BY <2>2 DEF IInv, BlankedIsCurrent, Candid
  <2> QED
    BY <2>1, <2>2
<1> QED
  BY <1>1, LoaderInvariant, PTL

(* Such a view, if it does not poll, never goes back from newer data of the *)
(* server to older data.                                                    *)
THEOREM DataOnlyAdvances == Spec => DataAdvances
<1> DEFINE Advance ==
      loader.cleanup /\ loader.poll = "none" /\ shown # Nothing /\ shown' # Nothing
        => shown'.version >= shown.version
<1>1. IInv /\ [Next]_vars => [Advance]_vars
  <2> SUFFICES ASSUME IInv, Next, loader.cleanup, loader.poll = "none",
                      shown # Nothing, shown' # Nothing
               PROVE  shown'.version >= shown.version
    OBVIOUS
  <2>1. shown.version \in Nat
    BY DEF IInv, TypeOK, Answer
  <2>2. shown' = shown \/ \E r \in Live : shown' = r.answer
    <3>1. CASE Mount \/ Refresh
      BY <3>1 DEF Mount, Refresh, Run
    <3>2. ASSUME NEW i \in Inputs, NEW v \in Values, Select(i, v) PROVE shown' = shown
      BY <3>2 DEF Select, Run, component
    <3>3. CASE Poll \/ DataChanges
      BY <3>3 DEF Poll, DataChanges, component
    <3>4. ASSUME NEW r \in requests, Succeed(r) \/ Fail(r)
          PROVE  shown' = shown \/ (r \in Live /\ shown' = r.answer)
      BY <3>4 DEF Succeed, Fail, Live, component
    <3> QED
      BY <3>1, <3>2, <3>3, <3>4 DEF Next
  <2>3. \A r \in Live : r.answer.version >= shown.version
    BY DEF IInv, LiveIsNewer
  <2> QED
    BY <2>1, <2>2, <2>3
<1>2. [][Advance]_vars => DataAdvances
  BY DEF DataAdvances
<1> QED
  BY <1>1, <1>2, LoaderInvariant, PTL DEF Spec

-----------------------------------------------------------------------------
(* Coming to rest                                                           *)

(* Requests are numbered as they are asked, and each is answered once.      *)
Numbered ==
    /\ \A r \in requests : r.answer.nr <= asked /\ r.answer.nr # shown.nr
    /\ \A r1, r2 \in requests : r1.answer.nr = r2.answer.nr => r1 = r2
    /\ shown.nr <= asked
    /\ failed => asked > 0

(* The newest request is for what is selected, and so is its answer.        *)
NewestIsForSelection ==
    Follows =>
        /\ \A r \in Live : r.answer.nr = asked => IsFor(r.answer, selection)
        /\ shown # Nothing /\ shown.nr = asked => IsFor(shown, selection)

NewestIsLive == \E r \in Live : r.answer.nr = asked

(* As long as outcomes come in order, the newest request is waited for, or  *)
(* its outcome is the one the component has.                                *)
NewestDecides ==
    ~overtaken =>
        /\ shown.nr <= applied
        /\ asked > 0 /\ ~NewestIsLive =>
              applied = asked /\ (shown.nr = asked \/ failed)

(* Where errors are cleared, a success leaves none.                         *)
SuccessIsClean ==
    /\ loader.cleanup /\ loader.poll = "none" =>
          /\ \A r \in Live : r.answer.nr = asked
          /\ loader.clears /\ (Live # {} \/ (asked > 0 /\ shown.nr = asked)) => ~failed
    /\ loader.poll # "none" /\ ~overtaken /\ asked > 0 /\ shown.nr = asked => ~failed

RestInv ==
    /\ Numbered /\ NewestIsForSelection /\ NewestDecides /\ SuccessIsClean
    /\ SpinnerEnds

LEMMA NumbersTyped ==
  ASSUME TypeOK
  PROVE  /\ asked \in Nat /\ applied \in Nat /\ shown.nr \in Nat
         /\ shown # Nothing => shown.nr > 0
         /\ \A r \in requests : r.answer.nr \in Nat /\ r.answer.nr > 0
<1>1. asked \in Nat /\ applied \in Nat
  BY BoundsAssumption DEF TypeOK
<1>2. shown \in Answer \/ shown = [nr |-> 0]
  BY DEF TypeOK, Nothing
<1>3. shown.nr \in Nat /\ (shown # Nothing => shown.nr > 0)
  BY <1>2, BoundsAssumption DEF Answer, Nothing
<1>4. \A r \in requests : r.answer.nr \in Nat /\ r.answer.nr > 0
  BY BoundsAssumption DEF TypeOK, Request, Answer
<1> QED
  BY <1>1, <1>3, <1>4

LEMMA RestInit ==
  ASSUME Init PROVE RestInv
<1>1. requests = {} /\ Live = {} /\ shown.nr = 0 /\ shown = Nothing /\ asked = 0 /\ applied = 0
      /\ ~failed /\ ~loading
  BY DEF Init, Live, Nothing
<1> QED
  BY <1>1 DEF RestInv, Numbered, NewestIsForSelection, NewestDecides, SuccessIsClean, SpinnerEnds

(* Asking: `open` is what is left of the earlier requests.                  *)
LEMMA AskingKeepsRest ==
  ASSUME IInv, RestInv, IInv', asked' = asked + 1,
         NEW open \in SUBSET Request, requests' = open \cup {Ask(selection')},
         selection' \in Selections, asked < MaxRequests,
         \A r \in open : \E q \in requests : r.answer = q.answer,
         \A r1, r2 \in open : r1.answer.nr = r2.answer.nr => r1 = r2,
         loader.cleanup /\ loader.poll = "none" => \A r \in open : r.cancelled,
         loader.cleanup /\ loader.poll = "none" /\ loader.clears => ~failed',
         shown' \in {shown, Nothing}, failed' => failed, loader' = loader,
         applied' = applied, overtaken' = overtaken
  PROVE  RestInv'
<1> DEFINE new == Ask(selection')
<1> TypeOK /\ Numbered
  BY DEF IInv, RestInv
<1>1. /\ new \in requests' /\ new \in Live' /\ new.answer.nr = asked' /\ ~new.cancelled
      /\ new.answer.for = selection'
  BY AskTyped DEF Ask, Live
<1>2. /\ asked \in Nat /\ asked' \in Nat /\ applied \in Nat
      /\ shown'.nr \in Nat /\ shown'.nr <= asked
  BY NumbersTyped DEF Numbered, Nothing
<1>3. \A r \in open : r.answer.nr \in Nat /\ r.answer.nr <= asked /\ r.answer.nr # shown'.nr
  BY NumbersTyped DEF Numbered, Nothing
<1>4. Numbered'
  <2>1. \A r \in requests' : r.answer.nr <= asked' /\ r.answer.nr # shown'.nr
    BY <1>1, <1>2, <1>3
  <2>2. ASSUME NEW r1 \in requests', NEW r2 \in requests', r1.answer.nr = r2.answer.nr
        PROVE  r1 = r2
    BY <1>1, <1>2, <1>3, <2>2
  <2> QED
    BY <1>2, <2>1, <2>2 DEF Numbered
<1>5. NewestIsForSelection'
  <2>1. \A r \in Live' : r.answer.nr = asked' => r = new
    BY <1>2, <1>3 DEF Live
  <2>2. shown'.nr # asked'
    BY <1>2
  <2> QED
    BY <1>1, <2>1, <2>2 DEF NewestIsForSelection, Follows, IsFor
<1>6. NewestDecides'
  <2>1. NewestIsLive'
    BY <1>1 DEF NewestIsLive
  <2>2. ~overtaken => shown'.nr <= applied
    <3>1. ~overtaken => shown.nr <= applied
      BY DEF RestInv, NewestDecides
    <3>2. 0 <= applied
      BY <1>2
    <3> QED
      BY <3>1, <3>2 DEF Nothing
  <2> QED
    BY <2>1, <2>2 DEF NewestDecides
<1>7. SuccessIsClean'
  <2>1. shown'.nr # asked'
    BY <1>2
  <2>2. loader.cleanup /\ loader.poll = "none" => \A r \in Live' : r.answer.nr = asked'
    BY <1>1 DEF Live
  <2> QED
    BY <2>1, <2>2 DEF SuccessIsClean
<1>8. SpinnerEnds'
  BY <1>1 DEF SpinnerEnds
<1> QED
  BY <1>4, <1>5, <1>6, <1>7, <1>8 DEF RestInv

LEMMA RunKeepsRest ==
  ASSUME IInv, RestInv, IInv', NEW i, selection' \in Selections,
         Run(i, selection'), UNCHANGED <<loader, version>>
  PROVE  RestInv'
<1> TypeOK /\ Numbered /\ requests \in SUBSET Request
  BY DEF IInv, RestInv, TypeOK
<1>1. /\ asked < MaxRequests /\ asked' = asked + 1
      /\ requests' = Cancelled(requests) \cup {Ask(selection')}
      /\ failed' = (failed /\ ~loader.clears)
      /\ shown' \in {shown, Nothing} /\ applied' = applied /\ overtaken' = overtaken
  BY DEF Run, history
<1>2. \A r1, r2 \in Cancelled(requests) : r1.answer.nr = r2.answer.nr => r1 = r2
  <2>1. CASE ~loader.cleanup
    BY <2>1 DEF Cancelled, Numbered
  <2>2. CASE loader.cleanup
    <3> SUFFICES ASSUME NEW q1 \in requests, NEW q2 \in requests,
                        [q1 EXCEPT !.cancelled = TRUE].answer.nr
                          = [q2 EXCEPT !.cancelled = TRUE].answer.nr
                 PROVE  q1 = q2
      BY <2>2 DEF Cancelled
    <3>1. q1.answer.nr = q2.answer.nr
      BY DEF Request
    <3> QED
      BY <3>1 DEF Numbered
  <2> QED
    BY <2>1, <2>2
<1> QED
  BY <1>1, <1>2, CancelledTyped, AskingKeepsRest

LEMMA PollKeepsRest ==
  ASSUME IInv, RestInv, IInv', Poll
  PROVE  RestInv'
<1> TypeOK /\ Numbered /\ requests \in SUBSET Request
  BY DEF IInv, RestInv, TypeOK
<1>1. /\ loader.poll # "none" /\ asked < MaxRequests /\ asked' = asked + 1
      /\ selection' = selection /\ selection \in Selections
      /\ requests' = requests \cup {Ask(selection')}
      /\ UNCHANGED <<loader, shown, failed, applied, overtaken>>
  BY BoundsAssumption DEF Poll, history, TypeOK
<1> QED
  BY <1>1, AskingKeepsRest DEF Numbered

LEMMA IgnoredKeepsRest ==
  ASSUME RestInv, NEW r \in requests, r.cancelled, requests' = requests \ {r},
         UNCHANGED <<loader, selection, version, asked, shown, loading, failed,
                     applied, overtaken>>
  PROVE  RestInv'
<1>1. Live' = Live
  BY DEF Live
<1>2. Numbered'
  BY DEF RestInv, Numbered
<1>3. NewestIsForSelection' /\ NewestIsLive' = NewestIsLive
  BY <1>1 DEF RestInv, NewestIsForSelection, NewestIsLive, Follows, IsFor
<1>4. NewestDecides' /\ SuccessIsClean' /\ SpinnerEnds'
  BY <1>1, <1>3 DEF RestInv, NewestDecides, SuccessIsClean, SpinnerEnds
<1> QED
  BY <1>2, <1>3, <1>4 DEF RestInv

(* An outcome of a request that is waited for.                              *)
LEMMA OutcomeKeepsRest ==
  ASSUME IInv, RestInv, NEW r \in requests, ~r.cancelled, requests' = requests \ {r}, Apply(r),
         UNCHANGED <<loader, selection, version, asked>>,
         \/ shown' = r.answer /\ failed' = (failed /\ loader.poll = "none")
         \/ shown' \in {shown, Nothing} /\ failed'
  PROVE  RestInv'
<1> TypeOK /\ Numbered /\ NewestDecides /\ SuccessIsClean
  BY DEF IInv, RestInv
<1> DEFINE n == r.answer.nr
<1>1. r \in Live /\ Live' = Live \ {r}
  BY DEF Live
<1>2. /\ asked \in Nat /\ applied \in Nat /\ n \in Nat /\ n > 0 /\ n <= asked /\ asked > 0
      /\ shown.nr \in Nat /\ shown.nr # n /\ shown.nr <= asked
  BY NumbersTyped DEF Numbered
<1>3. /\ applied' = n /\ loading' = FALSE
      /\ ~overtaken' => ~overtaken /\ ~(n < applied)
  BY DEF Apply, TypeOK
<1>4. /\ shown'.nr \in Nat /\ shown'.nr <= asked
      /\ shown'.nr \in {n, shown.nr, 0}
  BY <1>2 DEF Nothing
<1>5. \A q \in requests' : q.answer.nr # n
  BY DEF Numbered
<1>6. Numbered'
  <2>1. ASSUME NEW q \in requests' PROVE q.answer.nr <= asked /\ q.answer.nr # shown'.nr
    BY <1>4, <1>5, NumbersTyped DEF Numbered
  <2> QED
    BY <1>2, <1>4, <2>1 DEF Numbered
<1>7. NewestIsForSelection'
  <2> SUFFICES ASSUME Follows
               PROVE  /\ \A q \in Live' : q.answer.nr = asked => IsFor(q.answer, selection)
                      /\ shown' # Nothing /\ shown'.nr = asked => IsFor(shown', selection)
    BY DEF NewestIsForSelection, Follows, IsFor
  <2> QED
    BY <1>1 DEF RestInv, NewestIsForSelection
<1>8. NewestDecides'
  <2> SUFFICES ASSUME ~overtaken'
               PROVE  /\ shown'.nr <= applied'
                      /\ ~NewestIsLive' => applied' = asked /\ (shown'.nr = asked \/ failed')
    BY DEF NewestDecides
  <2>1. ~overtaken /\ ~(n < applied)
    BY <1>3
  <2>2. n >= applied /\ shown.nr <= applied
    BY <1>2, <2>1 DEF NewestDecides
  <2>3. shown'.nr <= applied'
    BY <1>2, <1>3, <1>4, <2>2
  <2>4. ASSUME ~NewestIsLive' PROVE n = asked
    <3>1. CASE NewestIsLive
      BY <1>1, <2>4, <3>1 DEF NewestIsLive
    <3>2. CASE ~NewestIsLive
      BY <1>2, <2>1, <2>2, <3>2 DEF NewestDecides
    <3> QED
      BY <3>1, <3>2
  <2>5. n = asked => shown'.nr = asked \/ failed'
    OBVIOUS
  <2> QED
    BY <1>3, <2>3, <2>4, <2>5
<1>9. SuccessIsClean'
  <2>1. ASSUME loader.cleanup, loader.poll = "none"
        PROVE  /\ Live' = {} /\ n = asked
               /\ loader.clears /\ shown'.nr = asked => ~failed'
    <3>1. Live' = {} /\ n = asked
      BY <1>1, <2>1 DEF IInv, OneIsLive, SuccessIsClean
    <3>2. shown'.nr = asked => shown' = r.answer \/ (shown'.nr = n /\ shown' \in {shown, Nothing})
      BY <3>1
    <3>3. shown'.nr = asked => shown' = r.answer /\ failed' = (failed /\ loader.poll = "none")
      BY <1>2, <3>1 DEF Nothing
    <3>4. loader.clears => ~failed
      BY <1>1, <2>1 DEF SuccessIsClean
    <3> QED
      BY <3>1, <3>3, <3>4
  <2>2. ASSUME loader.poll # "none", ~overtaken', shown'.nr = asked PROVE ~failed'
    <3> SUFFICES ASSUME shown' \in {shown, Nothing}, failed' PROVE FALSE
      BY <2>2
    <3>1. shown.nr = asked
      BY <1>2, <2>2 DEF Nothing
    <3>2. ~overtaken /\ ~(n < applied)
      BY <1>3, <2>2
    <3>3. asked <= applied
      BY <3>1, <3>2 DEF NewestDecides
    <3> QED
      BY <1>2, <3>1, <3>2, <3>3
  <2> QED
    BY <2>1, <2>2 DEF SuccessIsClean
<1>10. SpinnerEnds'
  BY <1>3 DEF SpinnerEnds
<1> QED
  BY <1>6, <1>7, <1>8, <1>9, <1>10 DEF RestInv

LEMMA NextKeepsRest ==
  ASSUME IInv, RestInv, IInv', [Next]_vars
  PROVE  RestInv'
<1> TypeOK /\ TypeOK'
  BY DEF IInv
<1>1. CASE Mount \/ Refresh
  <2>1. /\ selection' \in Selections /\ UNCHANGED <<loader, version>>
        /\ Run("mount", selection') \/ Run("refresh", selection')
    BY <1>1 DEF Mount, Refresh, TypeOK
  <2> QED
    BY <2>1, RunKeepsRest
<1>2. ASSUME NEW i \in Inputs, NEW v \in Values, Select(i, v) PROVE RestInv'
  <2>1. CASE i \in loader.deps
    <3>1. selection' \in Selections /\ Run(i, selection') /\ UNCHANGED <<loader, version>>
      BY <1>2, <2>1 DEF Select, TypeOK
    <3> QED
      BY <3>1, RunKeepsRest
  <2>2. CASE i \notin loader.deps
    <3>1. ~Follows /\ UNCHANGED <<loader, version, requests, asked, shown, loading, failed,
                                  applied, overtaken>>
      BY <1>2, <2>2 DEF Select, Follows, component, history
    <3>2. ~Follows' /\ Live' = Live
      BY <3>1 DEF Follows, Live
    <3>3. NewestIsForSelection'
      BY <3>2 DEF NewestIsForSelection
    <3>4. NewestIsLive' = NewestIsLive
      BY <3>1, <3>2 DEF NewestIsLive
    <3>5. Numbered' /\ NewestDecides' /\ SuccessIsClean' /\ SpinnerEnds'
      BY <3>1, <3>2, <3>4 DEF RestInv, Numbered, NewestDecides, SuccessIsClean, SpinnerEnds
    <3> QED
      BY <3>3, <3>5 DEF RestInv
  <2> QED
    BY <2>1, <2>2
<1>3. CASE Poll
  BY <1>3, PollKeepsRest
<1>4. ASSUME NEW r \in requests, Succeed(r) \/ Fail(r) PROVE RestInv'
  <2>1. requests' = requests \ {r} /\ UNCHANGED <<loader, selection, version, asked>>
    BY <1>4 DEF Succeed, Fail
  <2>2. CASE r.cancelled
    BY <1>4, <2>1, <2>2, IgnoredKeepsRest DEF Succeed, Fail, component, history
  <2>3. CASE ~r.cancelled
    <3>1. /\ Apply(r)
          /\ \/ shown' = r.answer /\ failed' = (failed /\ loader.poll = "none")
             \/ shown' \in {shown, Nothing} /\ failed'
      BY <1>4, <2>3 DEF Succeed, Fail
    <3> QED
      BY <2>1, <2>3, <3>1, OutcomeKeepsRest
  <2> QED
    BY <2>2, <2>3
<1>5. CASE DataChanges \/ UNCHANGED vars
  <2>1. UNCHANGED <<loader, selection, requests, asked, shown, loading, failed, applied, overtaken>>
    BY <1>5 DEF DataChanges, vars, component, history
  <2>2. Live' = Live /\ NewestIsLive' = NewestIsLive
    BY <2>1 DEF Live, NewestIsLive
  <2> QED
    BY <2>1, <2>2 DEF RestInv, Numbered, NewestIsForSelection, NewestDecides, SuccessIsClean,
       SpinnerEnds, Follows, IsFor
<1> QED
  BY <1>1, <1>2, <1>3, <1>4, <1>5 DEF Next

LEMMA RestInvariance == Spec => [](IInv /\ RestInv)
<1>1. Init => IInv /\ RestInv
  BY IInvInit, RestInit
<1>2. (IInv /\ RestInv) /\ [Next]_vars => (IInv /\ RestInv)'
  BY NextKeepsIInv, NextKeepsRest
<1> QED
  BY <1>1, <1>2, PTL DEF Spec

(* A view that asks again whenever an input of its request changes comes to *)
(* rest on what is selected, or on an error, when its answers come in the   *)
(* order of their requests: with a cleanup or without, with an interval or  *)
(* without, and whatever a failure does to the data.                        *)
THEOREM ViewsSettle == Spec => []SettlesOnSelection
<1>1. IInv /\ RestInv => SettlesOnSelection
  <2> SUFFICES ASSUME IInv, RestInv, Follows, Live = {}, ~overtaken, shown # Nothing
               PROVE  IsFor(shown, selection) \/ (failed /\ applied > shown.nr)
    BY DEF SettlesOnSelection
  <2>1. /\ asked \in Nat /\ shown.nr \in Nat /\ applied \in Nat
        /\ shown.nr > 0 /\ shown.nr <= asked
    BY NumbersTyped DEF IInv, RestInv, Numbered
  <2>2. applied = asked /\ (shown.nr = asked \/ failed)
    BY <2>1 DEF RestInv, NewestDecides, NewestIsLive
  <2>3. shown.nr = asked => IsFor(shown, selection)
    BY DEF RestInv, NewestIsForSelection
  <2> QED
    BY <2>1, <2>2, <2>3
<1> QED
  BY <1>1, RestInvariance, PTL

(* Where an error is cleared at all, by a new run that cancels what it no   *)
(* longer waits for or by the next answer of an interval, none is left      *)
(* beside the data of a later success.                                      *)
THEOREM NoErrorOutlivesItsFailure == Spec => []ErrorsAreCurrent
<1>1. IInv /\ RestInv => ErrorsAreCurrent
  <2> SUFFICES ASSUME IInv, RestInv, failed, Live = {}, ~overtaken,
                      (loader.clears /\ loader.cleanup) \/ loader.poll # "none"
               PROVE  shown.nr < applied
    BY DEF ErrorsAreCurrent
  <2>1. asked \in Nat /\ shown.nr \in Nat /\ shown.nr <= asked /\ asked > 0
    BY NumbersTyped DEF IInv, RestInv, Numbered
  <2>2. applied = asked
    BY <2>1 DEF RestInv, NewestDecides, NewestIsLive
  <2>3. shown.nr # asked
    BY <2>1 DEF RestInv, SuccessIsClean
  <2> QED
    BY <2>1, <2>2, <2>3
<1> QED
  BY <1>1, RestInvariance, PTL

(* No spinner turns for ever for want of a request: a view that says it is  *)
(* loading has one under way that it has not cancelled, and whose end,      *)
(* which api.ts bounds by a timeout, ends the loading.                      *)
THEOREM SpinnersHaveRequests == Spec => []SpinnerEnds
<1>1. IInv /\ RestInv => SpinnerEnds
  BY DEF RestInv
<1> QED
  BY <1>1, RestInvariance, PTL

-----------------------------------------------------------------------------
(* Numbers and ranks                                                        *)

(* A finite set in a strict total order: counting what comes before numbers *)
(* its elements from 0 on.                                                  *)
LEMMA RanksNumber ==
  ASSUME NEW D, IsFiniteSet(D), NEW before \in [D -> SUBSET D], NEW rank,
         \A x \in D : x \notin before[x],
         \A x, y \in D : y \in before[x] => before[y] \subseteq before[x],
         \A x, y \in D : x = y \/ x \in before[y] \/ y \in before[x],
         rank = [x \in D |-> Cardinality(before[x])]
  PROVE  /\ rank \in Bijection(D, 0 .. Cardinality(D) - 1)
         /\ \A x, y \in D : y \in before[x] <=> rank[y] < rank[x]
<1> DEFINE n == Cardinality(D)
<1>1. n \in Nat
  BY FS_CardinalityType
<1>2. ASSUME NEW x \in D PROVE IsFiniteSet(before[x]) /\ rank[x] \in Nat /\ rank[x] < n
  <2>1. before[x] \in SUBSET D /\ before[x] # D
    OBVIOUS
  <2>2. IsFiniteSet(before[x]) /\ Cardinality(before[x]) <= n /\ Cardinality(before[x]) # n
    BY <2>1, FS_Subset
  <2>3. Cardinality(before[x]) \in Nat
    BY <2>2, FS_CardinalityType
  <2> QED
    BY <1>1, <2>2, <2>3
<1>3. ASSUME NEW x \in D, NEW y \in D, y \in before[x] PROVE rank[y] < rank[x]
  <2>1. before[y] \in SUBSET before[x] /\ before[y] # before[x]
    BY <1>3
  <2>2. Cardinality(before[y]) <= Cardinality(before[x]) /\ Cardinality(before[y]) # Cardinality(before[x])
    BY <1>2, <2>1, FS_Subset
  <2>3. rank[y] = Cardinality(before[y]) /\ rank[x] = Cardinality(before[x])
    OBVIOUS
  <2>4. rank[y] \in Nat /\ rank[x] \in Nat
    BY <1>2
  <2> QED
    BY <2>2, <2>3, <2>4
<1>4. \A x, y \in D : y \in before[x] <=> rank[y] < rank[x]
  <2> SUFFICES ASSUME NEW x \in D, NEW y \in D, rank[y] < rank[x] PROVE y \in before[x]
    BY <1>3
  <2>1. rank[x] \in Nat /\ rank[y] \in Nat
    BY <1>2
  <2>2. x # y
    BY <2>1
  <2>3. x \notin before[y]
    BY <1>3, <2>1
  <2> QED
    BY <2>2, <2>3
<1>5. rank \in Injection(D, 0 .. n - 1)
  <2>1. rank \in [D -> 0 .. n - 1]
    <3>1. ASSUME NEW x \in D PROVE rank[x] \in 0 .. n - 1
      BY <1>1, <1>2
    <3> QED
      BY <3>1
  <2>2. ASSUME NEW x \in D, NEW y \in D, rank[x] = rank[y] PROVE x = y
    <3>1. rank[x] \in Nat /\ rank[y] \in Nat
      BY <1>2
    <3> QED
      BY <1>3, <2>2, <3>1
  <2> QED
    BY <2>1, <2>2 DEF Injection, IsInjective
<1>6. IsFiniteSet(0 .. n - 1) /\ Cardinality(0 .. n - 1) = n
  <2>1. 0 \in Int /\ n - 1 \in Int /\ (0 > n - 1 <=> n = 0) /\ (n - 1) - 0 + 1 = n
    BY <1>1
  <2> HIDE DEF n
  <2> QED
    BY <2>1, FS_Interval
<1>7. rank \in Surjection(D, 0 .. n - 1)
  BY <1>5, <1>6, FS_Injection
<1> QED
  BY <1>4, <1>5, <1>7 DEF Bijection

(* As many elements have a rank in an interval as the interval has numbers  *)
(* that are ranks.                                                          *)
LEMMA RanksIn ==
  ASSUME NEW D, NEW n \in Nat, NEW rank \in Bijection(D, 0 .. n - 1),
         NEW a \in Nat, NEW b \in Int, b < n, NEW P, P = {x \in D : rank[x] \in a .. b}
  PROVE  IsFiniteSet(P) /\ Cardinality(P) = IF a > b THEN 0 ELSE b - a + 1
<1>1. PICK f : f = [x \in P |-> rank[x]]
  OBVIOUS
<1>2. f \in Injection(P, a .. b)
  <2>1. f \in [P -> a .. b]
    BY <1>1
  <2>2. \A x, y \in P : f[x] = f[y] => x = y
    BY <1>1 DEF Bijection, Injection, IsInjective
  <2> QED
    BY <2>1, <2>2 DEF Injection, IsInjective
<1>3. f \in Surjection(P, a .. b)
  <2>1. ASSUME NEW k \in a .. b PROVE \E x \in P : f[x] = k
    <3>1. k \in 0 .. n - 1
      OBVIOUS
    <3>2. PICK x \in D : rank[x] = k
      BY <3>1 DEF Bijection, Surjection
    <3> QED
      BY <1>1, <3>2
  <2> QED
    BY <1>2, <2>1 DEF Injection, Surjection
<1>4. IsFiniteSet(a .. b) /\ Cardinality(a .. b) = IF a > b THEN 0 ELSE b - a + 1
  BY FS_Interval
<1> QED
  BY <1>2, <1>3, <1>4, FS_Injection

(* A finite set has an element with the greatest number, and one with the   *)
(* least.                                                                   *)
LEMMA GreatestNumber ==
  ASSUME NEW P, IsFiniteSet(P), P # {}, NEW f \in [P -> Int]
  PROVE  \E n \in P : \A k \in P : f[k] <= f[n]
<1> DEFINE above(n) == {k \in P : f[k] > f[n]}
           all == {above(n) : n \in P}
<1>1. all \subseteq FiniteSubsetsOf(P) /\ all # {}
  <2>1. ASSUME NEW n \in P PROVE above(n) \in FiniteSubsetsOf(P)
    <3>1. above(n) \in SUBSET P
      OBVIOUS
    <3>2. IsFiniteSet(above(n))
      BY <3>1, FS_Subset
    <3> QED
      BY <3>1, <3>2 DEF FiniteSubsetsOf
  <2>2. PICK n \in P : TRUE
    OBVIOUS
  <2>3. above(n) \in all
    BY <2>2
  <2> HIDE DEF above
  <2> QED
    BY <2>1, <2>3
<1>2. PICK least \in all : \A s \in all : <<s, least>> \notin StrictSubsetOrdering(P)
  BY <1>1, WFMin, FS_StrictSubsetOrderingWellFounded
<1>3. PICK n \in P : least = above(n)
  BY <1>2
<1>4. ASSUME NEW k \in P, ~(f[k] <= f[n]) PROVE FALSE
  <2>1. f[k] > f[n] /\ f[n] \in Int /\ f[k] \in Int
    BY <1>4
  <2>2. above(k) \subseteq above(n) /\ k \in above(n) /\ k \notin above(k)
    BY <2>1
  <2>3. <<above(k), least>> \in StrictSubsetOrdering(P)
    BY <1>1, <1>2, <1>3, <2>2 DEF StrictSubsetOrdering, FiniteSubsetsOf
  <2> QED
    BY <1>2, <2>3
<1> QED
  BY <1>4

LEMMA LeastNumber ==
  ASSUME NEW P, IsFiniteSet(P), P # {}, NEW f \in [P -> Int]
  PROVE  \E n \in P : \A k \in P : f[n] <= f[k]
<1>1. PICK g : g = [n \in P |-> -f[n]]
  OBVIOUS
<1>2. g \in [P -> Int] /\ \A n \in P : f[n] = -g[n] /\ f[n] \in Int /\ g[n] \in Int
  BY <1>1
<1>3. PICK n \in P : \A k \in P : g[k] <= g[n]
  BY <1>2, GreatestNumber
<1> QED
  BY <1>2, <1>3

-----------------------------------------------------------------------------
(* The comparison of tables                                                 *)

LEMMA MaxAndMin ==
  ASSUME NEW P, IsFiniteSet(P), P # {}, NEW f \in [P -> Int], NEW S, S = {f[n] : n \in P}
  PROVE  /\ TC!Max(S) \in S /\ \A x \in S : TC!Max(S) >= x
         /\ TC!Min(S) \in S /\ \A x \in S : TC!Min(S) <= x
<1>1. PICK n \in P : \A k \in P : f[k] <= f[n]
  BY GreatestNumber
<1>2. PICK m \in P : \A k \in P : f[m] <= f[k]
  BY LeastNumber
<1>3. f[n] \in S /\ f[m] \in S /\ \A x \in S : f[n] >= x /\ f[m] <= x
  BY <1>1, <1>2
<1> QED
  BY <1>3 DEF TC!Max, TC!Min

LEMMA MaxAndMinOf ==
  ASSUME NEW S \in SUBSET Int, IsFiniteSet(S), S # {}
  PROVE  /\ TC!Max(S) \in S /\ \A x \in S : TC!Max(S) >= x
         /\ TC!Min(S) \in S /\ \A x \in S : TC!Min(S) <= x
<1>1. PICK f : f = [x \in S |-> x]
  OBVIOUS
<1>2. f \in [S -> Int] /\ S = {f[x] : x \in S}
  BY <1>1
<1> QED
  BY <1>2, MaxAndMin

LEMMA PairIsFinite ==
  ASSUME NEW x, NEW y
  PROVE  IsFiniteSet({x, y}) /\ (x # y => Cardinality({x, y}) = 2)
<1>1. IsFiniteSet({x}) /\ Cardinality({x}) = 1 /\ {x, y} = {x} \cup {y}
  BY FS_Singleton
<1>2. IsFiniteSet({x} \cup {y}) /\ (y \notin {x} => Cardinality({x} \cup {y}) = Cardinality({x}) + 1)
  BY <1>1, FS_AddElement
<1> QED
  BY <1>1, <1>2

LEMMA TcConstants ==
  /\ Compared # {} /\ IsFiniteSet(Compared)
  /\ TC!Absent \notin Copies
  /\ \A c \in Copies \cup {TC!Absent} : c.rows \in Nat /\ c.s3 \in 0 .. TC!Unknown
<1>1. TC!IsFiniteSet(Compared) <=> IsFiniteSet(Compared)
  BY DEF TC!IsFiniteSet, IsFiniteSet
<1>2. TC!Absent.rows \in Nat /\ TC!Absent.s3 \in 0 .. TC!Unknown
  BY DEF TC!Absent, TC!Unknown
<1> QED
  BY <1>1, <1>2, ListsFit DEF TC!ConstantsOK

(* Every instance is in the list of all, which has a first one.             *)
LEMMA AllNodesAre ==
  TC!AllNodes \in Seq(Compared) /\ TC!AllNodes # <<>> /\ TC!IsInjective(TC!AllNodes)
<1>1. IsFiniteSet(Compared) /\ Compared # {}
  BY TcConstants
<1>2. PICK n : n = Cardinality(Compared)
  OBVIOUS
<1>3. n \in Nat /\ n # 0 /\ ExistsBijection(1 .. n, Compared)
  BY <1>1, <1>2, FS_CardinalityType, FS_EmptySet
<1>4. PICK f \in [1 .. n -> Compared] : \A a, b \in DOMAIN f : f[a] = f[b] => a = b
  BY <1>3 DEF ExistsBijection, Bijection, Injection, IsInjective
<1>5. TC!Cardinality(Compared) = n
  <2>1. TC!Cardinality(Compared) = Cardinality(Compared)
    BY DEF TC!Cardinality, Cardinality
  <2> QED
    BY <1>2, <2>1
<1>6. TC!AllNodes \in [1 .. n -> Compared] /\ TC!IsInjective(TC!AllNodes)
  BY <1>4, <1>5 DEF TC!AllNodes, TC!SetToSeq, TC!IsInjective
<1>7. TC!AllNodes \in Seq(Compared) /\ Len(TC!AllNodes) = n
  BY <1>3, <1>6, SeqDef, LenProperties
<1> QED
  BY <1>3, <1>6, <1>7, EmptySeq

(* What the nodes hold, and that the nodes selected are the stored ones,    *)
(* each once.                                                               *)
TcInv ==
    /\ held \in [ComparedTables -> [Compared -> Copies \cup {TC!Absent}]]
    /\ selected \in Seq(Compared) /\ tcStored \in Seq(Compared)
    /\ TC!IsInjective(selected) /\ TC!IsInjective(tcStored)
    /\ unread \subseteq Compared /\ loaded \in BOOLEAN /\ tcSearch \subseteq ComparedTables
    /\ loaded /\ tcStored # <<>> => selected = tcStored

LEMMA TcTyped == TcInv => TC!TypeOK
<1> SUFFICES ASSUME TcInv PROVE TC!TypeOK
  OBVIOUS
<1>1. ASSUME NEW s \in Seq(Compared) PROVE TC!Range(s) \subseteq Compared
  <2>1. s \in [1 .. Len(s) -> Compared]
    BY SeqDef, LenProperties
  <2> QED
    BY <2>1 DEF TC!Range
<1> QED
  BY <1>1 DEF TcInv, TC!TypeOK

LEMMA TcStarts == TC!Init => TcInv
<1>1. TC!IsInjective(<<>>) /\ <<>> \in Seq(Compared)
  BY DEF TC!IsInjective
<1> QED
  BY <1>1 DEF TC!Init, TcInv

LEMMA ActiveNodesAre ==
  TcInv => TC!activeNodes \in Seq(Compared) /\ TC!activeNodes # <<>> /\ TC!IsInjective(TC!activeNodes)
  BY AllNodesAre DEF TcInv, TC!activeNodes

LEMMA NodesStay == TcInv => TC!NodesAreKept
<1> SUFFICES ASSUME TcInv PROVE TC!NodesAreKept
  OBVIOUS
<1>1. loaded /\ tcStored # <<>> => TC!activeNodes = tcStored
  BY DEF TcInv, TC!activeNodes
<1> QED
  BY <1>1, ActiveNodesAre DEF TC!NodesAreKept

(* A sequence without one of its places still has everything once.          *)
LEMMA OneRemoved ==
  ASSUME NEW S, NEW s \in Seq(S), NEW i \in 1 .. Len(s), \A a, b \in 1 .. Len(s) : s[a] = s[b] => a = b,
         NEW h, h = SubSeq(s, 1, i - 1) \o SubSeq(s, i + 1, Len(s))
  PROVE  \A a, b \in DOMAIN h : h[a] = h[b] => a = b
<1>1. Len(s) \in Nat /\ DOMAIN s = 1 .. Len(s)
  BY LenProperties
<1>2. PICK l, f, g : l \in Nat /\ l = Len(s) /\ f = SubSeq(s, 1, i - 1) /\ g = SubSeq(s, i + 1, l)
  BY <1>1
<1>10. l \in Int /\ i \in Int /\ i >= 1 /\ l >= i
  BY <1>1, <1>2
<1>3. f \in Seq(S) /\ Len(f) = i - 1 /\ \A a \in 1 .. i - 1 : f[a] = s[a]
  <2>1. i - 1 \in Nat /\ i - 1 \in 1 - 1 .. Len(s)
    BY <1>1
  <2> QED
    BY <1>1, <1>2, <2>1, SubSeqProperties
<1>4. g \in Seq(S) /\ Len(g) = l - i /\ \A a \in 1 .. l - i : g[a] = s[i + a]
  <2>1. PICK m \in Int : m = i + 1
    BY <1>1
  <2>2. \A a \in m .. l : s[a] \in S
    BY <1>1, <1>2, <2>1
  <2>3. g \in Seq(S) /\ Len(g) = (IF m <= l THEN l - m + 1 ELSE 0) /\ \A a \in 1 .. l - m + 1 : g[a] = s[m + a - 1]
    BY <1>2, <2>1, <2>2, SubSeqProperties
  <2>4. l - m + 1 = l - i /\ l >= i /\ \A a \in 1 .. l - i : m + a - 1 = i + a
    BY <1>1, <1>2, <2>1
  <2>5. Len(g) = l - i
    <3>1. CASE m <= l
      BY <2>3, <2>4, <3>1
    <3>2. CASE ~(m <= l)
      <4>1. Len(g) = 0 /\ l - i = 0
        BY <1>10, <2>1, <2>3, <3>2
      <4> QED
        BY <4>1
    <3> QED
      BY <3>1, <3>2
  <2> QED
    BY <2>3, <2>4, <2>5
<1>5. h = f \o g
  BY <1>2
<1>6. h \in Seq(S) /\ Len(h) = Len(f) + Len(g) /\ \A a \in 1 .. Len(f) + Len(g) : h[a] = IF a <= Len(f) THEN f[a] ELSE g[a - Len(f)]
  <2>1. f \in Seq(S) /\ g \in Seq(S)
    BY <1>3, <1>4
  <2>2. /\ f \o g \in Seq(S) /\ Len(f \o g) = Len(f) + Len(g)
        /\ \A a \in 1 .. Len(f) + Len(g) : (f \o g)[a] = IF a <= Len(f) THEN f[a] ELSE g[a - Len(f)]
    BY <2>1, ConcatProperties
  <2> QED
    BY <1>5, <2>2
<1>7. DOMAIN h = 1 .. l - 1 /\ Len(f) + Len(g) = l - 1 /\ Len(f) = i - 1
  <2>1. Len(f) + Len(g) = l - 1
    <3>1. Len(f) = i - 1 /\ Len(g) = l - i
      BY <1>3, <1>4
    <3>2. (i - 1) + (l - i) = l - 1
      BY <1>10
    <3> QED
      BY <3>1, <3>2
  <2>2. DOMAIN h = 1 .. Len(h)
    BY <1>6, LenProperties
  <2> QED
    BY <1>3, <1>6, <2>1, <2>2
<1>8. ASSUME NEW a \in 1 .. l - 1 PROVE h[a] = IF a < i THEN s[a] ELSE s[a + 1]
  <2>1. h[a] = IF a <= i - 1 THEN f[a] ELSE g[a - (i - 1)]
    BY <1>6, <1>7
  <2>2. CASE a < i
    <3>1. a <= i - 1 /\ a \in 1 .. i - 1
      BY <1>1, <1>2, <2>2
    <3> QED
      BY <1>3, <2>1, <2>2, <3>1
  <2>3. CASE ~(a < i)
    <3>1. PICK c : c = a - (i - 1)
      OBVIOUS
    <3>2. ~(a <= i - 1) /\ c \in 1 .. l - i /\ i + c = a + 1
      BY <1>1, <1>2, <2>3, <3>1
    <3>3. h[a] = g[c] /\ g[c] = s[i + c]
      BY <1>4, <2>1, <3>1, <3>2
    <3> QED
      BY <2>3, <3>2, <3>3
  <2> QED
    BY <2>2, <2>3
<1>9. ASSUME NEW a \in 1 .. l - 1, NEW b \in 1 .. l - 1, h[a] = h[b] PROVE a = b
  <2>1. PICK c, d : c = (IF a < i THEN a ELSE a + 1) /\ d = (IF b < i THEN b ELSE b + 1)
    OBVIOUS
  <2>2. c \in 1 .. l /\ d \in 1 .. l /\ (c = d => a = b)
    BY <1>1, <1>2, <2>1
  <2>3. h[a] = s[c] /\ h[b] = s[d]
    BY <1>8, <2>1
  <2> QED
    BY <1>2, <1>9, <2>2, <2>3
<1> QED
  BY <1>7, <1>9

LEMMA TcKept ==
  ASSUME TcInv, [TC!Next]_(TC!vars)
  PROVE  TcInv'
<1>1. /\ held \in [ComparedTables -> [Compared -> Copies \cup {TC!Absent}]]
      /\ selected \in Seq(Compared) /\ tcStored \in Seq(Compared)
      /\ loaded /\ tcStored # <<>> => selected = tcStored
      /\ TC!activeNodes \in Seq(Compared) /\ TC!activeNodes # <<>> /\ TC!IsInjective(TC!activeNodes)
      /\ TC!IsInjective(selected) /\ TC!IsInjective(tcStored)
      /\ unread \subseteq Compared /\ loaded \in BOOLEAN /\ tcSearch \subseteq ComparedTables
  BY ActiveNodesAre DEF TcInv
<1>2. ASSUME NEW nodes \in Seq(Compared), TC!IsInjective(nodes), TC!handleSetNodes(nodes) PROVE TcInv'
  BY <1>1, <1>2 DEF TC!handleSetNodes, TcInv
<1>3. CASE TC!Load
  BY <1>1, <1>3, AllNodesAre DEF TC!Load, TcInv
<1>4. CASE TC!Leave
  BY <1>1, <1>4 DEF TC!Leave, TcInv
<1>5. ASSUME NEW n \in Compared, TC!toggle(n) PROVE TcInv'
  <2>1. PICK s \in Seq(Compared) : s = TC!activeNodes
    BY <1>1
  <2>4. \A a, b \in DOMAIN s : s[a] = s[b] => a = b
    BY <1>1, <2>1 DEF TC!IsInjective
  <2>2. ASSUME NEW i \in DOMAIN s, TC!handleSetNodes(TC!RemoveAt(s, i)) PROVE TcInv'
    <3>1. DOMAIN s = 1 .. Len(s) /\ Len(s) \in Nat
      BY LenProperties
    <3>2. SubSeq(s, 1, i - 1) \in Seq(Compared) /\ SubSeq(s, i + 1, Len(s)) \in Seq(Compared)
      BY <3>1, SubSeqProperties
    <3>3. TC!RemoveAt(s, i) \in Seq(Compared)
      BY <3>2, ConcatProperties DEF TC!RemoveAt
    <3>4. TC!IsInjective(TC!RemoveAt(s, i))
      <4>1. PICK h : h = SubSeq(s, 1, i - 1) \o SubSeq(s, i + 1, Len(s))
        OBVIOUS
      <4>2. \A a, b \in DOMAIN h : h[a] = h[b] => a = b
        BY <2>4, <3>1, <4>1, OneRemoved
      <4> QED
        BY <4>1, <4>2 DEF TC!RemoveAt, TC!IsInjective
    <3> QED
      BY <1>2, <2>2, <3>3, <3>4
  <2>3. CASE n \notin TC!Range(s) /\ TC!handleSetNodes(Append(s, n))
    <3>1. TC!IsInjective(Append(s, n))
      BY <2>3, <2>4, AppendProperties, LenProperties DEF TC!IsInjective, TC!Range
    <3> QED
      BY <1>2, <2>3, <3>1, AppendProperties
  <2> QED
    BY <1>5, <2>1, <2>2, <2>3 DEF TC!toggle
<1>6. CASE TC!SelectAll
  BY <1>2, <1>6, AllNodesAre DEF TC!SelectAll
<1>7. CASE TC!ResetNodes
  <2>1. PICK s \in Seq(Compared) : s = TC!AllNodes
    BY AllNodesAre
  <2>2. Len(s) > 1 /\ TC!handleSetNodes(SubSeq(s, 1, 1))
    BY <1>7, <2>1 DEF TC!ResetNodes
  <2>3. SubSeq(s, 1, 1) \in Seq(Compared) /\ TC!IsInjective(SubSeq(s, 1, 1))
    BY <2>2, SubSeqProperties, LenProperties DEF TC!IsInjective
  <2> QED
    BY <1>2, <2>2, <2>3
<1>8. CASE TC!Search
  BY <1>1, <1>8 DEF TC!Search, TcInv
<1>9. CASE UNCHANGED TC!vars
  BY <1>1, <1>9 DEF TC!vars, TcInv
<1> QED
  BY <1>3, <1>4, <1>5, <1>6, <1>7, <1>8, <1>9 DEF TC!Next

(* The banner's four empty lists say that the copies are the same, table by *)
(* table: each node has it, and its rows, its key and columns, and its      *)
(* share on S3 are within the limits of the first one, or of all.           *)
LEMMA IdenticalIsTrue == TcInv => TC!AllIdenticalIsTrue
<1> SUFFICES ASSUME TcInv, TC!AllIdentical, tcSearch = ComparedTables,
                    TC!Range(TC!activeNodes) \cap unread = {},
                    NEW t \in ComparedTables,
                    \A n, k \in TC!Present(t) :
                       TC!Known(TC!Node(t, n).columns) = TC!Known(TC!Node(t, k).columns),
                    NEW n \in TC!Range(TC!activeNodes), NEW k \in TC!Range(TC!activeNodes)
             PROVE  TC!Same(held[t][n], held[t][k])
  BY DEF TC!AllIdenticalIsTrue
<1>1. PICK nodes \in Seq(Compared) : nodes = TC!activeNodes
  BY ActiveNodesAre
<1>2. PICK A : A = {nodes[i] : i \in 1 .. Len(nodes)}
  OBVIOUS
<1>3. A = TC!Range(TC!activeNodes) /\ A \subseteq Compared
  BY <1>1, <1>2, LenProperties, ElementOfSeq DEF TC!Range
<1>4. \A m \in A : TC!Node(t, m) = held[t][m] /\ held[t][m] \in Copies \cup {TC!Absent}
  BY <1>3 DEF TC!Node, TcInv
<1>5. PICK P : P = TC!Present(t)
  OBVIOUS
<1>6. P \subseteq A /\ \A m \in A : m \in P <=> held[t][m] # TC!Absent
  BY <1>3, <1>4, <1>5 DEF TC!Present, TC!missing_on
<1>7. IsFiniteSet(P)
  BY <1>3, <1>6, TcConstants, FS_Subset
<1>8. CASE P = {}
  <2>1. held[t][n] = TC!Absent /\ held[t][k] = TC!Absent
    BY <1>3, <1>6, <1>8
  <2>2. TC!Max({0}) = 0 /\ TC!Min({0}) = 0
    <3>1. IsFiniteSet({0})
      BY FS_Singleton
    <3> QED
      BY <3>1, MaxAndMinOf
  <2>3. TC!Absent.rows = 0 /\ {0, 0} = {0} /\ 0 * 99 <= 0 * 100 /\ TC!Absent.s3 = TC!Unknown
    BY DEF TC!Absent
  <2> QED
    BY <2>1, <2>2, <2>3 DEF TC!Same
<1>9. CASE P # {}
  <2>1. t \in TC!baseRows /\ t \in TC!Answered
    BY <1>3, <1>5, <1>6, <1>9 DEF TC!baseRows, TC!Answered, TC!Present
  <2>2. /\ ~TC!isRowMissing(t) /\ ~TC!Divergent(t) /\ ~TC!DDLDiffers(t) /\ ~TC!disk_discrepancy(t)
    BY <2>1 DEF TC!AllIdentical, TC!filtered
  <2>3. P = A /\ n \in P /\ k \in P
    BY <1>3, <1>5, <1>6, <2>2 DEF TC!isRowMissing, TC!Present
  <2>4. PICK a, b : a = held[t][n] /\ b = held[t][k]
    OBVIOUS
  <2>5. /\ a = TC!Node(t, n) /\ b = TC!Node(t, k) /\ a # TC!Absent /\ b # TC!Absent
        /\ a.rows \in Nat /\ b.rows \in Nat /\ a.s3 \in 0 .. TC!Unknown /\ b.s3 \in 0 .. TC!Unknown
    BY <1>4, <1>6, <2>3, <2>4, TcConstants
  (* More than one present node, or the same one twice.                       *)
  <2>6. TC!Max({a.rows, b.rows}) * 99 <= TC!Min({a.rows, b.rows}) * 100
    <3>1. PICK f : f = [m \in P |-> TC!Node(t, m).rows]
      OBVIOUS
    <3>2. f \in [P -> Int] /\ \A m \in P : f[m] \in Nat
      BY <1>4, <2>3, <3>1, TcConstants
    <3>3. PICK R : R = {f[m] : m \in P}
      OBVIOUS
    <3>4. R = {TC!Node(t, m).rows : m \in TC!Present(t)} /\ a.rows \in R /\ b.rows \in R /\ R \subseteq Nat
      BY <1>5, <2>3, <2>5, <3>1, <3>2, <3>3
    <3>5. /\ TC!Max(R) \in R /\ \A x \in R : TC!Max(R) >= x
          /\ TC!Min(R) \in R /\ \A x \in R : TC!Min(R) <= x
      BY <1>7, <1>9, <3>2, <3>3, MaxAndMin
    <3>6. IsFiniteSet({a.rows, b.rows}) /\ {a.rows, b.rows} \in SUBSET Int
      <4>1. IsFiniteSet({a.rows, b.rows})
        BY PairIsFinite
      <4> QED
        BY <2>5, <4>1
    <3>7. PICK M, N : M = TC!Max({a.rows, b.rows}) /\ N = TC!Min({a.rows, b.rows})
      OBVIOUS
    <3>8. M \in {a.rows, b.rows} /\ N \in {a.rows, b.rows}
      BY <3>6, <3>7, MaxAndMinOf
    <3>9. CASE n = k
      BY <2>4, <2>5, <3>7, <3>8, <3>9
    <3>10. CASE n # k
      <4>1. Cardinality(P) >= 2
        <5>1. Cardinality({n, k}) = 2 /\ {n, k} \in SUBSET P
          BY <2>3, <3>10, PairIsFinite
        <5> QED
          BY <1>7, <5>1, FS_Subset, FS_CardinalityType
      <4>2. TC!Cardinality(P) = Cardinality(P)
        BY DEF TC!Cardinality, Cardinality
      <4>3. ~((TC!Max(R) - TC!Min(R)) * 100 > TC!Max(R))
        BY <1>5, <2>2, <3>4, <4>1, <4>2 DEF TC!Divergent, TC!Drifts
      <4>4. M <= TC!Max(R) /\ N >= TC!Min(R) /\ M \in Nat /\ N \in Nat /\ TC!Max(R) \in Nat /\ TC!Min(R) \in Nat
        BY <2>5, <3>4, <3>5, <3>8
      <4> QED
        BY <3>7, <4>3, <4>4
    <3> QED
      BY <3>9, <3>10
  (* Each is as the first one.                                                *)
  <2>7. /\ a.partition = b.partition /\ a.sorting = b.sorting
        /\ TC!Known(a.columns) /\ TC!Known(b.columns) => a.columns = b.columns
    <3>1. PICK I : I = {i \in 1 .. Len(nodes) : nodes[i] \in TC!Present(t)}
      OBVIOUS
    <3>2. I # {} /\ I \in SUBSET Int /\ IsFiniteSet(I)
      <4>1. I \in SUBSET (1 .. Len(nodes)) /\ Len(nodes) \in Int
        BY <3>1, LenProperties
      <4>2. IsFiniteSet(1 .. Len(nodes))
        BY <4>1, FS_Interval
      <4>3. IsFiniteSet(I)
        BY <4>1, <4>2, FS_Subset
      <4>4. PICK i \in 1 .. Len(nodes) : nodes[i] = n
        BY <1>2, <1>3
      <4>5. i \in I
        BY <1>5, <2>3, <3>1, <4>4
      <4> QED
        BY <4>1, <4>3, <4>5
    <3>3. TC!Min(I) \in I
      BY <3>2, MaxAndMinOf
    <3>4. PICK r : r = TC!ref(t)
      OBVIOUS
    <3>5. r = nodes[TC!Min(I)]
      BY <1>1, <3>1, <3>2, <3>4 DEF TC!ref, TC!SelectInSeq
    <3>6. r \in P
      BY <1>5, <3>1, <3>3, <3>5
    <3>7. PICK c : c = TC!Node(t, r)
      OBVIOUS
    <3>8. \A m \in P : LET d == TC!Node(t, m) IN
             /\ c.partition = d.partition /\ c.sorting = d.sorting
             /\ c.columns # "" /\ d.columns # "" => c.columns = d.columns
      BY <1>5, <2>2, <3>4, <3>7 DEF TC!DDLDiffers
    <3>9. TC!Known(c.columns) = TC!Known(a.columns) /\ TC!Known(c.columns) = TC!Known(b.columns)
      BY <1>5, <2>3, <2>5, <3>6, <3>7
    <3> QED
      BY <2>3, <2>5, <3>8, <3>9 DEF TC!Known
  (* What is known of the disks is close together.                            *)
  <2>8. TC!Unknown \notin {a.s3, b.s3} => a.s3 - b.s3 \in -20 .. 20
    <3> SUFFICES ASSUME TC!Unknown \notin {a.s3, b.s3} PROVE a.s3 - b.s3 \in -20 .. 20
      OBVIOUS
    <3>1. PICK K : K = {TC!Node(t, m).s3 : m \in Compared} \ {TC!Unknown}
      OBVIOUS
    <3>2. a.s3 \in K /\ b.s3 \in K
      BY <1>3, <2>3, <2>5, <3>1
    <3>3. K \subseteq 0 .. TC!Unknown
      <4>1. \A m \in Compared : TC!Node(t, m) \in Copies \cup {TC!Absent}
        BY DEF TC!Node, TcInv
      <4> QED
        BY <3>1, <4>1, TcConstants
    <3>4. IsFiniteSet(K) /\ K \in SUBSET Int
      <4>1. TC!Unknown \in Nat /\ K \in SUBSET Nat /\ \A x \in K : x <= TC!Unknown
        BY <3>3 DEF TC!Unknown
      <4>2. IsFiniteSet(K)
        BY <4>1, FS_BoundedSetOfNaturals
      <4> QED
        BY <4>1, <4>2
    <3>5. /\ TC!Max(K) \in K /\ TC!Max(K) >= a.s3 /\ TC!Max(K) >= b.s3
          /\ TC!Min(K) \in K /\ TC!Min(K) <= a.s3 /\ TC!Min(K) <= b.s3
      BY <3>2, <3>4, MaxAndMinOf
    <3>6. ~(TC!Max(K) - TC!Min(K) > 20)
      BY <2>2, <3>1, <3>2 DEF TC!disk_discrepancy
    <3>7. /\ TC!Max(K) \in Int /\ TC!Min(K) \in Int /\ a.s3 \in Int /\ b.s3 \in Int
      BY <3>2, <3>4, <3>5
    <3>8. \A x, y, u, v \in Int : x >= u /\ x >= v /\ y <= u /\ y <= v /\ ~(x - y > 20) => u - v \in -20 .. 20
      OBVIOUS
    <3> QED
      BY <3>5, <3>6, <3>7, <3>8
  <2> QED
    BY <2>4, <2>5, <2>6, <2>7, <2>8 DEF TC!Same
<1> QED
  BY <1>8, <1>9

-----------------------------------------------------------------------------
(* The comparison of settings                                               *)

(* A setting is changed or has its default.                                 *)
ScInv == SC!TypeOK

LEMMA ScStarts == SC!Init => ScInv
  BY DEF SC!Init, ScInv, SC!TypeOK

LEMMA ScKept ==
  ASSUME ScInv, [SC!Next]_(SC!vars)
  PROVE  ScInv'
<1>1. diffsOnly' \in BOOLEAN
  BY DEF ScInv, SC!TypeOK, SC!Next, SC!vars, SC!Load, SC!Leave, SC!handleSetBaseline, SC!ToggleDiffsOnly
<1>2. /\ UNCHANGED set /\ scUnread' \subseteq Compared /\ scLoaded' \in BOOLEAN
      /\ baseline' \in Compared \cup {SC!Absent}
  BY DEF ScInv, SC!TypeOK, SC!Next, SC!vars, SC!Load, SC!Leave, SC!handleSetBaseline, SC!ToggleDiffsOnly
<1> QED
  BY <1>1, <1>2 DEF ScInv, SC!TypeOK

LEMMA DifferencesAreShown == ScInv => SC!ChangedDifferencesAreShown
<1> SUFFICES ASSUME ScInv, scLoaded, NEW s \in Settings, NEW n \in Compared \ scUnread,
                    NEW k \in Compared \ scUnread, SC!Changed(s, n), SC!Changed(s, k), set[s][n] # set[s][k]
             PROVE  /\ s \in SC!Shown
                    /\ SC!effectiveBaseline \in {n, k} => \E m \in {n, k} : SC!settingsDiff(m) > 0
  BY DEF SC!ChangedDifferencesAreShown
<1>1. IsFiniteSet(Settings) /\ SC!Default # SC!Absent /\ SC!Absent \notin SettingValues
  <2>1. SC!IsFiniteSet(Settings) <=> IsFiniteSet(Settings)
    BY DEF SC!IsFiniteSet, IsFiniteSet
  <2> QED
    BY <2>1, ListsFit DEF SC!ConstantsOK, SC!Default, SC!Absent
<1>2. \A m \in {n, k} : SC!values(s, m) = set[s][m] /\ SC!values(s, m) # SC!Absent
  BY <1>1 DEF SC!values, SC!Changed, ScInv, SC!TypeOK
<1>3. s \in SC!Names /\ SC!Differs(s)
  BY <1>2 DEF SC!Names, SC!Differs
<1>4. PICK b : b = SC!effectiveBaseline
  OBVIOUS
(* The two values differ, so one of them is not the baseline's.             *)
<1>5. PICK m \in {n, k} : SC!CellDiffers(s, m)
  BY <1>2, <1>4 DEF SC!CellDiffers
<1>6. m \in SC!others
  BY <1>5 DEF SC!others, SC!CellDiffers
<1>7. s \in SC!Diffs
  BY <1>3, <1>5, <1>6 DEF SC!Diffs
<1>8. s \in SC!Shown
  BY <1>3, <1>7 DEF SC!Shown, SC!AllMatch, SC!Rows
<1>9. ASSUME b \in {n, k} PROVE SC!settingsDiff(m) > 0
  <2>1. PICK D : D = {q \in SC!Names : /\ SC!Differs(q) /\ SC!CellDiffers(q, m)
                           /\ SC!Absent \notin {SC!values(q, m), SC!values(q, SC!effectiveBaseline)}}
    OBVIOUS
  <2>2. s \in D
    BY <1>2, <1>3, <1>4, <1>5, <1>9, <2>1
  <2>3. IsFiniteSet(D) /\ D # {}
    <3>1. D \subseteq Settings
      BY <2>1 DEF SC!Names
    <3> QED
      BY <1>1, <2>2, <3>1, FS_Subset
  <2>4. Cardinality(D) \in Nat /\ Cardinality(D) # 0
    BY <2>3, FS_CardinalityType, FS_EmptySet
  <2>5. SC!Cardinality(D) = Cardinality(D)
    BY DEF SC!Cardinality, Cardinality
  <2>6. SC!settingsDiff(m) = SC!Cardinality(D)
    BY <2>1 DEF SC!settingsDiff
  <2> QED
    BY <2>4, <2>5, <2>6
<1> QED
  BY <1>4, <1>8, <1>9

-----------------------------------------------------------------------------
(* The list of alerts                                                       *)

LEMMA AlConstants ==
  /\ Catalog \subseteq AL!AlertType /\ IsFiniteSet(Catalog) /\ PageSize \in Nat /\ PageSize > 0
  /\ \A S : AL!Cardinality(S) = Cardinality(S)
<1>1. \A S : AL!IsFiniteSet(S) <=> IsFiniteSet(S)
  BY DEF AL!IsFiniteSet, IsFiniteSet
<1>2. \A S : AL!Cardinality(S) = Cardinality(S)
  BY DEF AL!Cardinality, Cardinality
<1> QED
  BY ListsFit, <1>1, <1>2 DEF AL!ConstantsOK

AlInv ==
    /\ AL!TypeOK /\ AL!CursorIsOnARow
    /\ AL!filtered = {} => cursorIdx <= 0

LEMMA AlCounts ==
  ASSUME AL!TypeOK
  PROVE  /\ IsFiniteSet(allAlerts) /\ IsFiniteSet(AL!filtered)
         /\ AL!count \in Nat /\ AL!count <= Cardinality(Catalog) /\ Cardinality(Catalog) \in Nat
         /\ AL!Cardinality(Catalog) = Cardinality(Catalog)
         /\ AL!filtered # {} => AL!count > 0
<1>1. AL!filtered \subseteq Catalog /\ allAlerts \subseteq Catalog /\ AL!count = Cardinality(AL!filtered)
  BY AlConstants DEF AL!filtered, AL!TypeOK, AL!count
<1>2. /\ IsFiniteSet(allAlerts) /\ IsFiniteSet(AL!filtered)
      /\ Cardinality(AL!filtered) <= Cardinality(Catalog)
  BY <1>1, AlConstants, FS_Subset
<1>3. Cardinality(AL!filtered) \in Nat /\ Cardinality(Catalog) \in Nat
  BY <1>2, AlConstants, FS_CardinalityType
<1>4. AL!filtered # {} => Cardinality(AL!filtered) # 0
  BY <1>2, FS_EmptySet
<1> QED
  BY <1>1, <1>2, <1>3, <1>4, AlConstants

LEMMA DisjointSum ==
  ASSUME NEW F, NEW S, IsFiniteSet(F), IsFiniteSet(S), F \cap S = {}
  PROVE  IsFiniteSet(F \cup S) /\ Cardinality(F \cup S) = Cardinality(F) + Cardinality(S)
<1>1. IsFiniteSet(F \cup S) /\ Cardinality(F \cup S) = Cardinality(F) + Cardinality(S) - Cardinality(F \cap S)
  BY FS_Union
<1>2. Cardinality(F \cap S) = 0
  <2>1. Cardinality({}) = 0
    BY FS_EmptySet
  <2> QED
    BY <2>1
<1>3. Cardinality(F) \in Nat /\ Cardinality(S) \in Nat
  BY FS_CardinalityType
<1>4. \A a, b \in Nat : a + b - 0 = a + b
  OBVIOUS
<1> QED
  BY <1>1, <1>2, <1>3, <1>4

LEMMA ThreeParts ==
  ASSUME NEW F, NEW S, NEW R, IsFiniteSet(F), IsFiniteSet(S), IsFiniteSet(R), F \cap S = {}, (F \cup S) \cap R = {}
  PROVE  Cardinality(F \cup S \cup R) = Cardinality(F) + Cardinality(S) + Cardinality(R)
<1>1. Cardinality(F) \in Nat /\ Cardinality(S) \in Nat /\ Cardinality(R) \in Nat
  BY FS_CardinalityType
<1>2. IsFiniteSet(F \cup S) /\ Cardinality(F \cup S) = Cardinality(F) + Cardinality(S)
  BY <1>1, DisjointSum
<1>3. Cardinality(F \cup S \cup R) = Cardinality(F \cup S) + Cardinality(R)
  BY <1>2, DisjointSum
<1> QED
  BY <1>1, <1>2, <1>3

LEMMA ListAgrees == AL!TypeOK => AL!ListAgreesWithCards
<1> SUFFICES ASSUME AL!TypeOK PROVE AL!ListAgreesWithCards
  OBVIOUS
<1> DEFINE With(s) == {a \in allAlerts : a.status = s}
<1>1. \A a \in allAlerts : a \in AL!AlertType /\ a.status \in {"firing", "stale", "resolved"}
  BY AlConstants DEF AL!TypeOK, AL!AlertType
<1>2. ASSUME filters = AL!Firings, ~search PROVE AL!count = AL!Counter("firing")
  <2>1. DOMAIN filters = {"instance", "status"} /\ filters["instance"] = "all" /\ filters["status"] = "firing"
    BY <1>2 DEF AL!Firings
  <2>2. ASSUME NEW a \in allAlerts PROVE AL!Passes(a) <=> a.status = "firing"
    BY <1>2, <2>1 DEF AL!Passes, AL!Firing
  <2>3. AL!filtered = With("firing")
    BY <2>2 DEF AL!filtered
  <2> QED
    BY <2>3 DEF AL!count, AL!Counter
<1>3. \A a \in AL!filtered : {g \in AL!groups : a \in AL!GroupAlerts(g)} = {AL!Group(a)}
  BY DEF AL!groups, AL!GroupAlerts
<1>4. AL!Counter("firing") + AL!Counter("stale") + AL!Counter("resolved") = AL!Cardinality(allAlerts)
  <2>1. IsFiniteSet(allAlerts)
    BY AlCounts
  <2>2. PICK F, S, R : F = With("firing") /\ S = With("stale") /\ R = With("resolved")
    OBVIOUS
  <2>3. F \cap S = {} /\ (F \cup S) \cap R = {}
    BY <2>2
  <2>4. allAlerts = F \cup S \cup R
    BY <1>1, <2>2
  <2>5. F \subseteq allAlerts /\ S \subseteq allAlerts /\ R \subseteq allAlerts
    BY <2>2
  <2>6. IsFiniteSet(F) /\ IsFiniteSet(S) /\ IsFiniteSet(R)
    BY <2>1, <2>5, FS_Subset
  <2>7. Cardinality(allAlerts) = Cardinality(F) + Cardinality(S) + Cardinality(R)
    BY <2>3, <2>4, <2>6, ThreeParts
  <2>8. /\ AL!Counter("firing") = Cardinality(F) /\ AL!Counter("stale") = Cardinality(S)
        /\ AL!Counter("resolved") = Cardinality(R)
    BY <2>2, AlConstants DEF AL!Counter
  <2>9. AL!Cardinality(allAlerts) = Cardinality(allAlerts)
    BY AlConstants
  <2> QED
    BY <2>7, <2>8, <2>9
<1> QED
  BY <1>2, <1>3, <1>4 DEF AL!ListAgreesWithCards

LEMMA AlStarts == AL!Init => AlInv
<1> SUFFICES ASSUME AL!Init PROVE AlInv
  OBVIOUS
<1>1. Cardinality(Catalog) \in Nat /\ AL!Cardinality(Catalog) = Cardinality(Catalog)
  BY AlConstants, FS_CardinalityType
<1>2. cursorIdx = -1 /\ cursorIdx \in -1 .. AL!Cardinality(Catalog) /\ flatPage \in 0 .. AL!Cardinality(Catalog)
  BY <1>1 DEF AL!Init
<1>3. AL!TypeOK
  BY <1>2 DEF AL!Init, AL!TypeOK
<1> QED
  BY <1>2, <1>3 DEF AlInv, AL!CursorIsOnARow

(* A step that takes the cursor away.                                       *)
LEMMA AlResets ==
  ASSUME AL!TypeOK, AL!ResetCursor,
         allAlerts' \subseteq Catalog, filters' \in AL!Filters, search' \in BOOLEAN, alRange' \in BOOLEAN,
         viewMode' \in {"grouped", "flat", "timeline"}, flatPage' \in {0, flatPage}
  PROVE  AlInv'
<1>1. Cardinality(Catalog) \in Nat /\ AL!Cardinality(Catalog) = Cardinality(Catalog)
  BY AlConstants, FS_CardinalityType
<1>2. cursorIdx' = -1 /\ cursorIdx' \in -1 .. AL!Cardinality(Catalog) /\ flatPage' \in 0 .. AL!Cardinality(Catalog)
  BY <1>1 DEF AL!ResetCursor, AL!TypeOK
<1>3. AL!TypeOK'
  BY <1>2 DEF AL!TypeOK
<1> QED
  BY <1>2, <1>3 DEF AlInv, AL!CursorIsOnARow

LEMMA AlMoves ==
  ASSUME AlInv, NEW i, AL!MoveTo(i), i = -1 \/ (i \in Nat /\ i < AL!count) \/ (i = 0 /\ AL!filtered = {})
  PROVE  AlInv'
<1>1. /\ cursorIdx' = i /\ flatPage' = IF i < 0 THEN flatPage ELSE i \div PageSize
      /\ UNCHANGED <<allAlerts, filters, search, alRange, viewMode>>
  BY DEF AL!MoveTo, AL!list
<1>2. /\ AL!count \in Nat /\ AL!count <= Cardinality(Catalog) /\ Cardinality(Catalog) \in Nat
      /\ AL!Cardinality(Catalog) = Cardinality(Catalog) /\ PageSize \in Nat /\ PageSize > 0
      /\ flatPage \in 0 .. AL!Cardinality(Catalog)
  BY AlCounts, AlConstants DEF AlInv, AL!TypeOK
<1>3. i \in -1 .. Cardinality(Catalog)
  BY <1>2
<1>4. i \in Nat => i \div PageSize \in Nat /\ i \div PageSize <= i
  BY <1>2
<1>5. flatPage' \in 0 .. Cardinality(Catalog)
  BY <1>1, <1>2, <1>3, <1>4
<1>6. AL!TypeOK'
  BY <1>1, <1>2, <1>3, <1>5 DEF AlInv, AL!TypeOK
<1>7. AL!filtered' = AL!filtered /\ AL!count' = AL!count
  BY <1>1 DEF AL!filtered, AL!count, AL!Passes
<1>8. i >= 0 /\ AL!filtered # {} => i < AL!count
  BY <1>3
<1>9. AL!filtered = {} => i <= 0
  BY <1>2, FS_EmptySet, AlConstants DEF AL!count
<1> QED
  BY <1>1, <1>6, <1>7, <1>8, <1>9 DEF AlInv, AL!CursorIsOnARow

LEMMA AlKept ==
  ASSUME AlInv, [AL!Next]_(AL!vars)
  PROVE  AlInv'
<1>1. /\ AL!TypeOK /\ AL!count \in Nat /\ Cardinality(Catalog) \in Nat
      /\ cursorIdx \in -1 .. Cardinality(Catalog) /\ AL!Cardinality(Catalog) = Cardinality(Catalog)
      /\ AL!filtered # {} => AL!count > 0
      /\ cursorIdx >= 0 /\ AL!filtered # {} => cursorIdx < AL!count
      /\ AL!filtered = {} => cursorIdx <= 0
  BY AlCounts DEF AlInv, AL!TypeOK, AL!CursorIsOnARow
<1>2. AL!filtered = {} => AL!count = 0
  BY FS_EmptySet, AlConstants DEF AL!count
<1>3. ASSUME NEW alerts \in SUBSET Catalog, AL!Loaded(alerts) PROVE AlInv'
  BY <1>1, <1>3, AlResets DEF AL!Loaded, AL!TypeOK
<1>4. ASSUME NEW f \in AL!Filters, AL!SetFilters(f) PROVE AlInv'
  BY <1>1, <1>4, AlResets DEF AL!SetFilters, AL!TypeOK
<1>5. ASSUME NEW text \in BOOLEAN, NEW token \in AL!ValuesOf("instance"), AL!Search(text, token) PROVE AlInv'
  <2>1. filters' \in AL!Filters
    BY <1>1, <1>5 DEF AL!Search, AL!TypeOK, AL!Filters
  <2> QED
    BY <1>1, <1>5, <2>1, AlResets DEF AL!Search, AL!TypeOK
<1>6. ASSUME AL!SetRange PROVE AlInv'
  BY <1>1, <1>6, AlResets DEF AL!SetRange, AL!TypeOK
<1>7. ASSUME NEW mode \in {"grouped", "flat", "timeline"}, AL!SetViewMode(mode) PROVE AlInv'
  BY <1>1, <1>7, AlResets DEF AL!SetViewMode, AL!TypeOK, AL!list
<1>8. ASSUME AL!Down PROVE AlInv'
  <2> DEFINE i == IF cursorIdx < 0 THEN 0
                  ELSE IF cursorIdx + 1 < AL!count THEN cursorIdx + 1 ELSE AL!count - 1
  <2>1. AL!MoveTo(i)
    BY <1>8 DEF AL!Down
  <2>2. i = -1 \/ (i \in Nat /\ i < AL!count) \/ (i = 0 /\ AL!filtered = {})
    BY <1>1, <1>2
  <2> HIDE DEF i
  <2> QED
    BY <2>1, <2>2, AlMoves
<1>9. ASSUME AL!Up PROVE AlInv'
  <2> DEFINE i == IF cursorIdx < 0 THEN 0 ELSE IF cursorIdx > 0 THEN cursorIdx - 1 ELSE 0
  <2>1. AL!MoveTo(i)
    BY <1>9 DEF AL!Up
  <2>2. i \in Nat /\ i <= Cardinality(Catalog) /\ (AL!filtered # {} => i < AL!count)
    BY <1>1
  <2>3. AL!filtered = {} => i = 0
    BY <1>1
  <2> HIDE DEF i
  <2> QED
    BY <2>1, <2>2, <2>3, AlMoves
<1>10. ASSUME AL!Escape PROVE AlInv'
  BY <1>1, <1>10, AlResets DEF AL!Escape, AL!TypeOK, AL!list, AL!ResetCursor
<1>11. ASSUME NEW p \in 0 .. AL!Cardinality(Catalog), AL!TurnPage(p) PROVE AlInv'
  <2>1. flatPage' = p /\ UNCHANGED <<allAlerts, filters, search, alRange, viewMode, cursorIdx>>
    BY <1>11 DEF AL!TurnPage, AL!list
  <2>2. AL!filtered' = AL!filtered /\ AL!count' = AL!count
    BY <2>1 DEF AL!filtered, AL!count, AL!Passes
  <2> QED
    BY <1>1, <2>1, <2>2 DEF AlInv, AL!TypeOK, AL!CursorIsOnARow
<1>12. ASSUME UNCHANGED AL!vars PROVE AlInv'
  BY <1>12 DEF AL!vars, AL!list, AlInv, AL!TypeOK, AL!CursorIsOnARow, AL!filtered, AL!count, AL!Passes
<1> QED
  BY <1>3, <1>4, <1>5, <1>6, <1>7, <1>8, <1>9, <1>10, <1>11, <1>12 DEF AL!Next

-----------------------------------------------------------------------------
(* The query log                                                            *)
LEMMA QlConstants ==
  /\ LogPage \in Nat \ {0} /\ MaxQueries \in Nat /\ MaxReloads \in Nat
  /\ \A S : QL!Cardinality(S) = Cardinality(S)
  BY ListsFit DEF QL!ConstantsOK, QL!Cardinality, Cardinality

(* Of the queries M that match, how many are newer, and a page of them.     *)
NewerOf(M, nr) == {m \in M : m > nr}
Place(M, nr) == Cardinality(NewerOf(M, nr))
PageAt(M, offset) == {nr \in M : Place(M, nr) \in offset .. offset + LogPage - 1}

LEMMA PlacesNumber ==
  ASSUME NEW M \in SUBSET Int, IsFiniteSet(M)
  PROVE  /\ [x \in M |-> Place(M, x)] \in Bijection(M, 0 .. Cardinality(M) - 1)
         /\ \A x \in M : Place(M, x) \in Nat /\ Place(M, x) < Cardinality(M)
         /\ \A x, y \in M : y > x <=> Place(M, y) < Place(M, x)
<1>1. PICK newer : newer = [x \in M |-> NewerOf(M, x)]
  OBVIOUS
<1>2. newer \in [M -> SUBSET M] /\ \A x, y \in M : y \in newer[x] <=> y > x
  BY <1>1 DEF NewerOf
<1>3. \A x \in M : x \in Int
  OBVIOUS
<1>4. /\ \A x \in M : x \notin newer[x]
      /\ \A x, y \in M : y \in newer[x] => newer[y] \subseteq newer[x]
      /\ \A x, y \in M : x = y \/ x \in newer[y] \/ y \in newer[x]
  <2>1. \A x \in M : x \notin newer[x]
    BY <1>2, <1>3
  <2>2. ASSUME NEW x \in M, NEW y \in M, y \in newer[x], NEW z \in newer[y] PROVE z \in newer[x]
    <3>1. z \in M /\ newer[y] \in SUBSET M
      BY <1>2, <2>2
    <3>2. z > y /\ y > x /\ x \in Int /\ y \in Int /\ z \in Int
      BY <1>2, <1>3, <2>2, <3>1
    <3>3. z > x
      BY <3>2
    <3> QED
      BY <1>2, <3>1, <3>3
  <2>3. ASSUME NEW x \in M, NEW y \in M PROVE x = y \/ x \in newer[y] \/ y \in newer[x]
    <3>1. x = y \/ x > y \/ y > x
      BY <1>3
    <3> QED
      BY <1>2, <3>1
  <2> QED
    BY <2>1, <2>2, <2>3
<1>5. PICK rank : rank = [x \in M |-> Cardinality(newer[x])]
  OBVIOUS
<1>6. /\ rank \in Bijection(M, 0 .. Cardinality(M) - 1)
      /\ \A x, y \in M : y \in newer[x] <=> rank[y] < rank[x]
  BY <1>2, <1>4, <1>5, RanksNumber
<1>7. rank = [x \in M |-> Place(M, x)]
  BY <1>1, <1>5 DEF Place
<1>8. Cardinality(M) \in Nat
  BY FS_CardinalityType
<1>9. \A x \in M : rank[x] \in 0 .. Cardinality(M) - 1
  BY <1>6 DEF Bijection, Injection
<1> QED
  BY <1>2, <1>6, <1>7, <1>8, <1>9

(* A page starts where it was asked to, leaves no place out, and if it is   *)
(* not full nothing comes after it.                                         *)
LEMMA PageIs ==
  ASSUME NEW M \in SUBSET Int, IsFiniteSet(M), NEW offset \in Nat, NEW P, P = PageAt(M, offset)
  PROVE  /\ P \subseteq M /\ IsFiniteSet(P) /\ Cardinality(P) \in Nat
         /\ \A p \in P, m \in M : p <= m => m \in P \/ Place(M, m) < offset
         /\ Cardinality(P) < LogPage => \A m \in M : m \in P \/ Place(M, m) < offset
         /\ \A m \in M : (\A p \in P : m < p) =>
               Place(M, m) < offset \/ Place(M, m) >= offset + Cardinality(P)
<1> DEFINE n == Cardinality(M)
           b == offset + LogPage - 1
<1>1. /\ [x \in M |-> Place(M, x)] \in Bijection(M, 0 .. n - 1)
      /\ \A x \in M : Place(M, x) \in Nat /\ Place(M, x) < n
      /\ \A x, y \in M : y > x <=> Place(M, y) < Place(M, x)
  BY PlacesNumber
<1>2. PICK rank : rank = [x \in M |-> Place(M, x)]
  OBVIOUS
<1>3. n \in Nat /\ LogPage \in Nat /\ LogPage > 0 /\ b \in Nat /\ b - offset + 1 = LogPage /\ offset <= b
  BY QlConstants, FS_CardinalityType
<1>4. P = {x \in M : Place(M, x) \in offset .. b}
  BY QlConstants DEF PageAt, Place
<1>5. P \subseteq M /\ IsFiniteSet(P) /\ Cardinality(P) \in Nat
  <2>1. P \in SUBSET M
    BY <1>4
  <2> QED
    BY <2>1, FS_Subset, FS_CardinalityType
<1>6. \A p \in P, m \in M : p <= m => m \in P \/ Place(M, m) < offset
  <2> SUFFICES ASSUME NEW p \in P, NEW m \in M, p <= m, ~(Place(M, m) < offset) PROVE m \in P
    OBVIOUS
  <2>1. p \in M /\ p \in Int /\ m \in Int
    BY <1>4
  <2>2. Place(M, m) <= Place(M, p)
    BY <1>1, <2>1
  <2> QED
    BY <1>1, <1>3, <1>4, <2>1, <2>2
<1>7. ASSUME Cardinality(P) < LogPage, NEW m \in M, m \notin P PROVE Place(M, m) < offset
  <2> SUFFICES ASSUME Place(M, m) > b PROVE FALSE
    BY <1>1, <1>3, <1>4, <1>7
  <2>1. b < n
    BY <1>1, <1>3
  <2>2. P = {x \in M : rank[x] \in offset .. b}
    BY <1>2, <1>4
  <2>3. rank \in Bijection(M, 0 .. n - 1) /\ b \in Int
    BY <1>1, <1>2, <1>3
  <2>4. Cardinality(P) = b - offset + 1
    <3> HIDE DEF n, b
    <3> QED
      BY <1>3, <2>1, <2>2, <2>3, RanksIn
  <2> QED
    BY <1>3, <1>7, <2>4
<1>8. Cardinality(P) <= LogPage
  <2>1. PICK f : f = [x \in P |-> rank[x]]
    OBVIOUS
  <2>2. f \in Injection(P, offset .. b)
    <3>1. f \in [P -> offset .. b]
      BY <1>2, <1>4, <2>1
    <3>2. \A x, y \in P : f[x] = f[y] => x = y
      BY <1>1, <1>2, <1>5, <2>1 DEF Bijection, Injection, IsInjective
    <3> QED
      BY <3>1, <3>2 DEF Injection, IsInjective
  <2>3. IsFiniteSet(offset .. b) /\ Cardinality(offset .. b) = LogPage
    <3>1. offset \in Int /\ b \in Int /\ ~(offset > b)
      BY <1>3
    <3> HIDE DEF b
    <3> QED
      BY <1>3, <3>1, FS_Interval
  <2> QED
    BY <2>2, <2>3, FS_Injection
<1>9. ASSUME NEW m \in M, \A p \in P : m < p
      PROVE  Place(M, m) < offset \/ Place(M, m) >= offset + Cardinality(P)
  <2>1. m \notin P
    BY <1>9
  <2>2. Place(M, m) \notin offset .. b
    BY <1>4, <2>1
  <2> QED
    BY <1>1, <1>3, <1>5, <1>8, <2>2
<1> QED
  BY <1>5, <1>6, <1>7, <1>9

(* Rows R, of which `top` are those of the first page: nothing between them *)
(* is missing, and what is below them has n queries or more above it.       *)
InOrder(M, top, R, n) ==
    /\ \A m \in M : (\E r \in top : m <= r) /\ (\E r \in R : r <= m) => m \in R
    /\ \A m \in M : (\A r \in R : m < r) => Place(M, m) >= n

(* Nothing below them is missing either.                                    *)
ToTheEnd(M, top, R) == \A m \in M : (\E r \in top : m <= r) => m \in R

(* A page P that goes below the rows R, which are n.                        *)
FitsBelow(M, P, R, n) ==
    \A m \in M : (\A r \in R : m < r) =>
        /\ ((\E p \in P : p <= m) \/ Cardinality(P) < LogPage) => m \in P
        /\ (\A p \in P : m < p) => Place(M, m) >= n + Cardinality(P)

LEMMA FirstPageFits ==
  ASSUME NEW M \in SUBSET Int, IsFiniteSet(M), NEW P, P = PageAt(M, 0)
  PROVE  /\ InOrder(M, P, P, Cardinality(P))
         /\ Cardinality(P) < LogPage => ToTheEnd(M, P, P)
<1>1. /\ P \subseteq M /\ IsFiniteSet(P) /\ Cardinality(P) \in Nat
      /\ \A p \in P, m \in M : p <= m => m \in P \/ Place(M, m) < 0
      /\ Cardinality(P) < LogPage => \A m \in M : m \in P \/ Place(M, m) < 0
      /\ \A m \in M : (\A p \in P : m < p) => Place(M, m) < 0 \/ Place(M, m) >= 0 + Cardinality(P)
  <2>1. PICK zero \in Nat : zero = 0
    OBVIOUS
  <2>2. P = PageAt(M, zero)
    BY <2>1
  <2>3. /\ P \subseteq M /\ IsFiniteSet(P) /\ Cardinality(P) \in Nat
        /\ \A p \in P, m \in M : p <= m => m \in P \/ Place(M, m) < zero
        /\ Cardinality(P) < LogPage => \A m \in M : m \in P \/ Place(M, m) < zero
        /\ \A m \in M : (\A p \in P : m < p) => Place(M, m) < zero \/ Place(M, m) >= zero + Cardinality(P)
    BY <2>2, PageIs
  <2> QED
    BY <2>1, <2>3
<1>2. \A m \in M : ~(Place(M, m) < 0)
  <2>1. \A x \in M : Place(M, x) \in Nat /\ Place(M, x) < Cardinality(M)
    BY PlacesNumber
  <2> QED
    BY <2>1
<1>3. 0 + Cardinality(P) = Cardinality(P)
  BY <1>1
<1> QED
  BY <1>1, <1>2, <1>3 DEF InOrder, ToTheEnd

LEMMA NextPageFits ==
  ASSUME NEW M \in SUBSET Int, IsFiniteSet(M), NEW top, NEW R, NEW n \in Nat,
         InOrder(M, top, R, n), NEW P, P = PageAt(M, n)
  PROVE  FitsBelow(M, P, R, n)
<1>1. /\ P \subseteq M /\ IsFiniteSet(P) /\ Cardinality(P) \in Nat
      /\ \A p \in P, m \in M : p <= m => m \in P \/ Place(M, m) < n
      /\ Cardinality(P) < LogPage => \A m \in M : m \in P \/ Place(M, m) < n
      /\ \A m \in M : (\A p \in P : m < p) => Place(M, m) < n \/ Place(M, m) >= n + Cardinality(P)
  <2>1. PICK offset \in Nat : offset = n
    OBVIOUS
  <2>2. P = PageAt(M, offset)
    BY <2>1
  <2>3. /\ P \subseteq M /\ IsFiniteSet(P) /\ Cardinality(P) \in Nat
        /\ \A p \in P, m \in M : p <= m => m \in P \/ Place(M, m) < offset
        /\ Cardinality(P) < LogPage => \A m \in M : m \in P \/ Place(M, m) < offset
        /\ \A m \in M : (\A p \in P : m < p) =>
              Place(M, m) < offset \/ Place(M, m) >= offset + Cardinality(P)
    BY <2>2, PageIs
  <2> QED
    BY <2>1, <2>3
<1>2. \A m \in M : Place(M, m) \in Nat
  BY PlacesNumber
<1>3. \A m \in M : (\A r \in R : m < r) => ~(Place(M, m) < n)
  BY <1>2 DEF InOrder
<1> QED
  BY <1>1, <1>3 DEF FitsBelow

(* Rows and a page that fits below them.                                    *)
LEMMA RowsGrow ==
  ASSUME NEW M \in SUBSET Int, NEW top, NEW R \in SUBSET Int, NEW n \in Nat, NEW P,
         InOrder(M, top, R, n), FitsBelow(M, P, R, n)
  PROVE  /\ InOrder(M, top, R \cup P, n + Cardinality(P))
         /\ ToTheEnd(M, top, R) \/ Cardinality(P) < LogPage => ToTheEnd(M, top, R \cup P)
<1>1. \A m \in M : (\A r \in R : m < r) \/ \E r \in R : r <= m
  OBVIOUS
<1>2. \A m \in M : (\E r \in top : m <= r) /\ (\E r \in R \cup P : r <= m) => m \in R \cup P
  BY <1>1 DEF InOrder, FitsBelow
<1>3. ToTheEnd(M, top, R) \/ Cardinality(P) < LogPage => ToTheEnd(M, top, R \cup P)
  BY <1>1 DEF InOrder, FitsBelow, ToTheEnd
<1>4. \A m \in M : (\A r \in R \cup P : m < r) => Place(M, m) >= n + Cardinality(P)
  BY DEF FitsBelow
<1> QED
  BY <1>2, <1>3, <1>4 DEF InOrder

(* What comes to the queries M is newer than the rows and pages seen, and   *)
(* what leaves them is the oldest.                                          *)
Turned(M, K, seen) ==
    /\ \A m \in K \ M : \A x \in seen : x < m
    /\ \A m \in K \cap M : NewerOf(M, m) \subseteq K

LEMMA PlacesGrow ==
  ASSUME NEW M \in SUBSET Int, NEW K \in SUBSET Int, IsFiniteSet(M), IsFiniteSet(K), NEW seen,
         Turned(M, K, seen), NEW m \in K \cap M
  PROVE  Place(M, m) \in Nat /\ Place(K, m) \in Nat /\ Place(M, m) <= Place(K, m)
<1>1. NewerOf(M, m) \in SUBSET NewerOf(K, m)
  BY DEF NewerOf, Turned
<1>2. NewerOf(K, m) \in SUBSET K
  BY DEF NewerOf
<1>3. IsFiniteSet(NewerOf(K, m))
  BY <1>2, FS_Subset
<1>4. IsFiniteSet(NewerOf(M, m)) /\ Cardinality(NewerOf(M, m)) <= Cardinality(NewerOf(K, m))
  BY <1>1, <1>3, FS_Subset
<1>5. Cardinality(NewerOf(M, m)) \in Nat /\ Cardinality(NewerOf(K, m)) \in Nat
  BY <1>3, <1>4, FS_CardinalityType
<1> QED
  BY <1>4, <1>5 DEF Place

LEMMA OrderSurvives ==
  ASSUME NEW M \in SUBSET Int, NEW K \in SUBSET Int, IsFiniteSet(M), IsFiniteSet(K),
         NEW seen \in SUBSET Int, Turned(M, K, seen), NEW top \in SUBSET seen, NEW R \in SUBSET seen,
         NEW n \in Nat, R = {} => n = 0
  PROVE  /\ InOrder(M, top, R, n) => InOrder(K, top, R, n)
         /\ ToTheEnd(M, top, R) => ToTheEnd(K, top, R)
<1>1. \A m \in K : m \in M \/ \A x \in seen : x < m
  BY DEF Turned
<1>2. \A m \in K : m \in Int
  OBVIOUS
<1>3. \A m \in K : (\E r \in top : m <= r) => m \in M
  <2> SUFFICES ASSUME NEW m \in K, NEW r \in top, m <= r, m \notin M PROVE FALSE
    OBVIOUS
  <2>1. r \in Int /\ m \in Int /\ r < m
    BY <1>1
  <2> QED
    BY <2>1
<1>4. ASSUME NEW m \in K, \A r \in R : m < r, InOrder(M, top, R, n) PROVE Place(K, m) >= n
  <2>1. CASE R = {}
    <3>1. Place(K, m) \in Nat
      BY PlacesNumber
    <3> QED
      BY <2>1, <3>1
  <2>2. CASE R # {}
    <3>1. PICK r \in R : m < r
      BY <1>4, <2>2
    <3>2. r \in Int /\ m \in Int /\ ~(r < m)
      BY <3>1
    <3>3. m \in M
      BY <1>1, <3>2
    <3>4. Place(M, m) >= n /\ Place(M, m) \in Nat /\ Place(K, m) \in Nat /\ Place(M, m) <= Place(K, m)
      BY <1>4, <3>3, PlacesGrow DEF InOrder
    <3> QED
      BY <3>4
  <2> QED
    BY <2>1, <2>2
<1>5. InOrder(M, top, R, n) => InOrder(K, top, R, n)
  BY <1>3, <1>4 DEF InOrder
<1>6. ToTheEnd(M, top, R) => ToTheEnd(K, top, R)
  BY <1>3 DEF ToTheEnd
<1> QED
  BY <1>5, <1>6

LEMMA FitSurvives ==
  ASSUME NEW M \in SUBSET Int, NEW K \in SUBSET Int, IsFiniteSet(M), IsFiniteSet(K),
         NEW seen \in SUBSET Int, Turned(M, K, seen), NEW R \in SUBSET seen, R # {}, NEW n \in Nat,
         NEW P, Cardinality(P) \in Nat, FitsBelow(M, P, R, n)
  PROVE  FitsBelow(K, P, R, n)
<1>1. ASSUME NEW m \in K, \A r \in R : m < r PROVE m \in M
  <2>1. PICK r \in R : m < r
    BY <1>1
  <2>2. r \in Int /\ m \in Int /\ ~(r < m)
    BY <2>1
  <2> QED
    BY <2>2 DEF Turned
<1>2. ASSUME NEW m \in K, \A r \in R : m < r, \A p \in P : m < p
      PROVE  Place(K, m) >= n + Cardinality(P)
  <2>1. m \in M
    BY <1>1, <1>2
  <2>2. Place(M, m) >= n + Cardinality(P)
    BY <1>2, <2>1 DEF FitsBelow
  <2>3. Place(M, m) \in Nat /\ Place(K, m) \in Nat /\ Place(M, m) <= Place(K, m)
    BY <2>1, PlacesGrow
  <2> QED
    BY <2>2, <2>3
<1> QED
  BY <1>1, <1>2 DEF FitsBelow

QlTypes ==
    /\ QL!TypeOK /\ Len(log) <= MaxQueries
    /\ copied \subseteq DOMAIN log /\ retained \subseteq DOMAIN log
    /\ (qlLoading <=> reload # <<>>)
    /\ QL!rows \subseteq DOMAIN log /\ (QL!rows = {} => length = 0)
    /\ reload # <<>> => reload[1].page \subseteq DOMAIN log
    /\ more # <<>> => more[1].page \subseteq DOMAIN log

(* What came from the copy stays in the copy.                               *)
QlSeen ==
    /\ "query_samples" \in pagesOf => QL!rows \subseteq copied
    /\ reload # <<>> /\ "query_samples" \in reload[1].of => reload[1].page \subseteq copied
    /\ more # <<>> /\ "query_samples" \in more[1].of => more[1].page \subseteq copied

ReloadFits(src) ==
    LET page_ == reload[1].page IN
        /\ InOrder(QL!Matching(src, status), page_, page_, Cardinality(page_))
        /\ Cardinality(page_) < LogPage => ToTheEnd(QL!Matching(src, status), page_, page_)

RowsFit(src) ==
    /\ InOrder(QL!Matching(src, status), firstPage, QL!rows, length)
    /\ exhausted => ToTheEnd(QL!Matching(src, status), firstPage, QL!rows)

MoreFits(src) == FitsBelow(QL!Matching(src, status), more[1].page, QL!rows, length)

QlPages ==
    /\ reload # <<>> => \A src \in reload[1].of : ReloadFits(src)
    /\ qlLoading /\ ~crossed => more = <<>> /\ ~exhausted
    /\ ~qlLoading /\ ~error /\ ~crossed =>
          /\ \A src \in pagesOf : RowsFit(src)
          /\ more # <<>> => QL!rows # {} /\ \A src \in pagesOf \cap more[1].of : MoreFits(src)

QlInv == QlTypes /\ QlSeen /\ QlPages

LEMMA NothingIsSkipped == QlInv => QL!NothingSkipped
  BY DEF QlInv, QlPages, RowsFit, InOrder, ToTheEnd, QL!NothingSkipped

(* The queries of a log are finitely many numbers.                          *)
LEMMA QueriesAre ==
  ASSUME NEW L \in Seq(BOOLEAN), NEW S \in SUBSET DOMAIN L
  PROVE  S \subseteq Int /\ IsFiniteSet(S) /\ Cardinality(S) \in Nat
<1>1. DOMAIN L = 1 .. Len(L) /\ Len(L) \in Nat
  OBVIOUS
<1>2. IsFiniteSet(1 .. Len(L))
  BY <1>1, FS_Interval
<1> QED
  BY <1>1, <1>2, FS_Subset, FS_CardinalityType

LEMMA MatchingAre ==
  ASSUME QlTypes, NEW src, NEW s
  PROVE  /\ QL!Matching(src, s) \in SUBSET Int /\ IsFiniteSet(QL!Matching(src, s))
         /\ QL!Matching(src, s) \subseteq DOMAIN log
         /\ src = "query_samples" => QL!Matching(src, s) \subseteq copied
<1>1. log \in Seq(BOOLEAN)
  BY DEF QlTypes, QL!TypeOK
<1>2. QL!Matching(src, s) \in SUBSET DOMAIN log
  BY DEF QlTypes, QL!Matching
<1> QED
  BY <1>1, <1>2, QueriesAre DEF QL!Matching

LEMMA AnswersAre ==
  ASSUME QlTypes, NEW s, NEW offset \in Nat, NEW answer \in QL!Answers(s, offset)
  PROVE  /\ answer \in QL!Answer
         /\ answer.page \subseteq DOMAIN log
         /\ \A src \in answer.of : answer.page = PageAt(QL!Matching(src, s), offset)
         /\ "query_samples" \in answer.of => answer.page \subseteq copied
<1>1. \A src : QL!Reads(src, s, offset) \subseteq SUBSET QL!Matching(src, s)
  BY DEF QL!Reads
<1>2. \A src : QL!Page(src, s, offset) = PageAt(QL!Matching(src, s), offset)
  BY QlConstants DEF QL!Page, QL!Window, PageAt, Place, NewerOf
<1>3. PICK p \in (QL!Reads("query_samples", s, offset) \ {{}}) \cup QL!Reads("query_log", s, offset) \cup {{}} :
          answer = [page |-> p, of |-> {src \in QL!Sources : p = QL!Page(src, s, offset)}]
  BY DEF QL!Answers
<1>4. p \subseteq DOMAIN log
  BY <1>1, <1>3, MatchingAre
<1>5. DOMAIN log \subseteq QL!Queries
  <2>1. Len(log) \in Nat /\ DOMAIN log = 1 .. Len(log) /\ Len(log) <= MaxQueries /\ MaxQueries \in Nat
    BY QlConstants DEF QlTypes, QL!TypeOK
  <2> QED
    BY <2>1 DEF QL!Queries
<1>6. answer \in QL!Answer
  BY <1>3, <1>4, <1>5 DEF QL!Answer
<1>7. \A src \in answer.of : answer.page = PageAt(QL!Matching(src, s), offset)
  BY <1>2, <1>3
<1>8. "query_samples" \in answer.of => answer.page \subseteq copied
  BY <1>7, MatchingAre DEF PageAt
<1> QED
  BY <1>3, <1>4, <1>6, <1>7, <1>8

LEMMA QlStarts == QL!Init => QlInv
<1> SUFFICES ASSUME QL!Init PROVE QlInv
  OBVIOUS
<1>1. /\ log = <<>> /\ DOMAIN log = {} /\ copied = {} /\ retained = {} /\ QL!rows = {} /\ length = 0
      /\ pagesOf = {} /\ more = <<>> /\ qlLoading /\ ~exhausted /\ ~crossed
  BY DEF QL!Init, QL!rows
<1>2. reload = <<[page |-> {}, of |-> QL!Sources]>> /\ reload # <<>>
  BY DEF QL!Init
<1>3. reload[1].page = {} /\ reload \in Seq(QL!Answer) /\ Len(reload) = 1
  BY <1>2 DEF QL!Answer
<1>4. QL!TypeOK
  <2>1. more \in Seq(QL!Answer) /\ Len(more) = 0 /\ log \in Seq(BOOLEAN) /\ reloads \in 0 .. MaxReloads
    BY <1>1, QlConstants DEF QL!Init
  <2>2. {qlLoading, loadingMore, exhausted, error, crossed} \subseteq BOOLEAN
    BY DEF QL!Init
  <2>3. Len(reload) <= 1 /\ Len(more) <= 1
    BY <1>3, <2>1
  <2>4. status \in QL!Statuses /\ firstPage = {} /\ pagesBelow = {}
    BY DEF QL!Init, QL!Statuses
  <2> QED
    BY <1>1, <1>3, <2>1, <2>2, <2>3, <2>4 DEF QL!TypeOK
<1>5. QlTypes
  <2>1. Len(log) <= MaxQueries
    BY <1>1, QlConstants
  <2> QED
    BY <1>1, <1>2, <1>3, <1>4, <2>1 DEF QlTypes
<1>6. QlPages
  <2>1. \A src : QL!Matching(src, status) = {}
    BY <1>1 DEF QL!Matching
  <2> QED
    BY <1>1, <2>1 DEF QlPages, ReloadFits, InOrder, ToTheEnd
<1> QED
  BY <1>1, <1>3, <1>5, <1>6 DEF QlInv, QlSeen

(* A query of a later second comes later.                                   *)
LEMMA DivisionIs ==
  ASSUME NEW n \in Nat, NEW p \in Nat \ {0}
  PROVE  n \div p \in Nat /\ p * (n \div p) <= n /\ n < p * (n \div p) + p
  BY Z3

LEMMA LaterSecond ==
  ASSUME NEW a \in Nat \ {0}, NEW b \in Nat \ {0}, QL!Second(a) > QL!Second(b)
  PROVE  a > b
<1>1. PerSecond \in Nat \ {0}
  BY ListsFit DEF QL!ConstantsOK
<1>2. PICK q \in Nat : q = QL!Second(a) /\ PerSecond * q <= a - 1 /\ a - 1 < PerSecond * q + PerSecond
  BY <1>1, DivisionIs DEF QL!Second
<1>3. PICK r \in Nat : r = QL!Second(b) /\ PerSecond * r <= b - 1 /\ b - 1 < PerSecond * r + PerSecond
  BY <1>1, DivisionIs DEF QL!Second
<1>4. PICK d \in Nat : q = r + 1 + d
  <2>1. q > r
    BY <1>2, <1>3
  <2>2. q - r - 1 \in Nat
    BY <2>1
  <2> QED
    BY <2>2
<1>5. PerSecond * q = PerSecond * r + PerSecond + PerSecond * d
  BY <1>1, <1>4
<1>6. PerSecond * d >= 0
  BY <1>1
<1>7. PICK x \in Int : x = PerSecond * q
  BY <1>1
<1>8. PICK y \in Int : y = PerSecond * r
  BY <1>1
<1>9. x >= y + PerSecond
  BY <1>1, <1>5, <1>6, <1>7, <1>8
<1> QED
  BY <1>1, <1>2, <1>3, <1>7, <1>8, <1>9

(* A query arrives, is copied or is forgotten.                              *)
SourcesTurn == (\E e \in BOOLEAN : QL!Arrive(e)) \/ QL!Expire \/ QL!Collect

LEMMA SourcesAre ==
  ASSUME QlTypes, SourcesTurn
  PROVE  /\ log' \in Seq(BOOLEAN) /\ DOMAIN log \subseteq DOMAIN log' /\ Len(log') <= MaxQueries
         /\ \A nr \in DOMAIN log : log'[nr] = log[nr]
         /\ copied \subseteq copied' /\ copied' \subseteq DOMAIN log' /\ retained' \subseteq DOMAIN log'
         /\ \A nr \in copied' \ copied : \A m \in copied : nr > m
         /\ \A nr \in retained' \ retained : \A m \in DOMAIN log : nr > m
         /\ \A nr \in retained \ retained' : \A m \in retained : nr <= m
         /\ UNCHANGED <<QL!state, reload, more, reloads, crossed, pagesOf>>
<1>1. /\ log \in Seq(BOOLEAN) /\ Len(log) \in Nat /\ DOMAIN log = 1 .. Len(log) /\ Len(log) <= MaxQueries
      /\ copied \subseteq DOMAIN log /\ retained \subseteq DOMAIN log /\ MaxQueries \in Nat
  BY QlConstants DEF QlTypes, QL!TypeOK
<1>2. ASSUME NEW e \in BOOLEAN, QL!Arrive(e)
      PROVE  /\ log' = Append(log, e) /\ Len(log) < MaxQueries /\ retained' = retained \cup {Len(log')}
             /\ UNCHANGED <<copied, QL!state, reload, more, reloads, crossed, pagesOf>>
  BY <1>2 DEF QL!Arrive
<1>3. ASSUME NEW e \in BOOLEAN, QL!Arrive(e)
      PROVE  /\ log' \in Seq(BOOLEAN) /\ Len(log') = Len(log) + 1 /\ DOMAIN log' = 1 .. Len(log) + 1
             /\ \A nr \in DOMAIN log : log'[nr] = log[nr]
  BY <1>1, <1>2, <1>3
<1>4. CASE \E e \in BOOLEAN : QL!Arrive(e)
  BY <1>1, <1>2, <1>3, <1>4
<1>5. CASE QL!Expire
  <2>1. UNCHANGED <<log, copied, QL!state, reload, more, reloads, crossed, pagesOf>>
    BY <1>5 DEF QL!Expire
  <2>2. PICK oldest \in retained : (\A nr \in retained : oldest <= nr) /\ retained' = retained \ {oldest}
    BY <1>5 DEF QL!Expire
  <2> QED
    BY <1>1, <2>1, <2>2
<1>6. CASE QL!Collect
  <2>1. UNCHANGED <<log, retained, QL!state, reload, more, reloads, crossed, pagesOf>>
    BY <1>6 DEF QL!Collect
  <2>2. PICK new \in SUBSET {nr \in retained : \A m \in copied : QL!Second(nr) > QL!Second(m)} :
            copied' = copied \cup new
    BY <1>6 DEF QL!Collect
  <2>3. new \in SUBSET retained /\ new \subseteq DOMAIN log
    BY <1>1, <2>2
  <2>4. \A nr \in DOMAIN log : nr \in Nat \ {0}
    BY <1>1
  <2>5. \A nr \in new : \A m \in copied : nr > m
    BY <1>1, <2>2, <2>3, <2>4, LaterSecond
  <2> QED
    BY <1>1, <2>1, <2>2, <2>3, <2>5
<1> QED
  BY <1>4, <1>5, <1>6 DEF SourcesTurn

LEMMA SourcesTurned ==
  ASSUME QlTypes, SourcesTurn, NEW src, NEW s, NEW seen \in SUBSET DOMAIN log,
         src = "query_samples" => seen \subseteq copied
  PROVE  /\ QL!Matching(src, s)' \in SUBSET Int /\ IsFiniteSet(QL!Matching(src, s)')
         /\ Turned(QL!Matching(src, s), QL!Matching(src, s)', seen)
<1>1. log \in Seq(BOOLEAN) /\ copied \subseteq DOMAIN log /\ retained \subseteq DOMAIN log /\ DOMAIN log \subseteq Int
  BY DEF QlTypes, QL!TypeOK
<1>2. /\ log' \in Seq(BOOLEAN) /\ DOMAIN log \subseteq DOMAIN log'
      /\ \A nr \in DOMAIN log : log'[nr] = log[nr]
      /\ copied \subseteq copied' /\ copied' \subseteq DOMAIN log' /\ retained' \subseteq DOMAIN log'
      /\ \A nr \in copied' \ copied : \A m \in copied : nr > m
      /\ \A nr \in retained' \ retained : \A m \in DOMAIN log : nr > m
      /\ \A nr \in retained \ retained' : \A m \in retained : nr <= m
  BY SourcesAre
<1>3. QL!Matching(src, s)' = {nr \in (IF src = "query_samples" THEN copied' ELSE retained') : s = "error" => log'[nr]}
  BY DEF QL!Matching
<1>4. QL!Matching(src, s)' \in SUBSET DOMAIN log'
  BY <1>2, <1>3
<1>5. QL!Matching(src, s)' \in SUBSET Int /\ IsFiniteSet(QL!Matching(src, s)')
  BY <1>2, <1>4, QueriesAre
<1>6. CASE src = "query_samples"
  <2>1. \A m \in QL!Matching(src, s)' : m \in copied => m \in QL!Matching(src, s)
    BY <1>1, <1>2, <1>3, <1>6 DEF QL!Matching
  <2>2. QL!Matching(src, s) \subseteq QL!Matching(src, s)'
    BY <1>1, <1>2, <1>3, <1>6 DEF QL!Matching
  <2>3. \A m \in QL!Matching(src, s)' \ QL!Matching(src, s) : \A x \in seen : x < m
    BY <1>1, <1>2, <1>3, <1>6, <2>1
  <2> QED
    BY <1>5, <2>2, <2>3 DEF Turned, NewerOf
<1>7. CASE src # "query_samples"
  <2>1. \A m \in QL!Matching(src, s)' : m \in retained => m \in QL!Matching(src, s)
    BY <1>1, <1>2, <1>3, <1>7 DEF QL!Matching
  <2>2. \A m \in QL!Matching(src, s) : m \in retained' => m \in QL!Matching(src, s)'
    BY <1>1, <1>2, <1>3, <1>7 DEF QL!Matching
  <2>3. \A m \in QL!Matching(src, s)' \ QL!Matching(src, s) : \A x \in seen : x < m
    BY <1>1, <1>2, <1>3, <1>7, <2>1
  <2>4. QL!Matching(src, s) \subseteq retained /\ QL!Matching(src, s) \subseteq Int
    BY <1>1, <1>7 DEF QL!Matching
  <2>5. ASSUME NEW m \in QL!Matching(src, s)' \cap QL!Matching(src, s), NEW y \in NewerOf(QL!Matching(src, s), m)
        PROVE  y \in QL!Matching(src, s)'
    <3>1. y \in QL!Matching(src, s) /\ y > m /\ y \in Int /\ m \in Int /\ m \in retained /\ y \in retained
      BY <2>4 DEF NewerOf
    <3>2. ~(y <= m)
      BY <3>1
    <3> QED
      BY <1>2, <2>2, <3>1, <3>2
  <2> QED
    BY <1>5, <2>3, <2>5 DEF Turned
<1> QED
  BY <1>5, <1>6, <1>7

LEMMA SourcesKeep ==
  ASSUME QlInv, SourcesTurn
  PROVE  QlInv'
<1>1. /\ QlTypes /\ QlSeen /\ QlPages /\ log \in Seq(BOOLEAN) /\ length \in Nat
      /\ QL!rows \in SUBSET DOMAIN log /\ firstPage \in SUBSET QL!rows
  BY DEF QlInv, QlTypes, QL!TypeOK, QL!rows
<1>2. /\ log' \in Seq(BOOLEAN) /\ DOMAIN log \subseteq DOMAIN log' /\ Len(log') <= MaxQueries
      /\ copied \subseteq copied' /\ copied' \subseteq DOMAIN log' /\ retained' \subseteq DOMAIN log'
      /\ UNCHANGED <<status, firstPage, pagesBelow, length, qlLoading, loadingMore, exhausted, error,
                     reload, more, reloads, crossed, pagesOf>>
  BY <1>1, SourcesAre DEF QL!state
<1>3. QL!rows' = QL!rows
  BY <1>2 DEF QL!rows
<1>4. QlTypes'
  <2>1. DOMAIN log' \subseteq QL!Queries
    <3>1. Len(log') \in Nat /\ DOMAIN log' = 1 .. Len(log') /\ MaxQueries \in Nat
      BY <1>2, QlConstants
    <3> QED
      BY <1>2, <3>1 DEF QL!Queries
  <2>2. QL!TypeOK'
    BY <1>1, <1>2, <2>1 DEF QlTypes, QL!TypeOK
  <2> QED
    BY <1>1, <1>2, <1>3, <2>2 DEF QlTypes
<1>5. QlSeen'
  BY <1>1, <1>2, <1>3 DEF QlSeen
<1>6. \A S \in SUBSET DOMAIN log : S \subseteq Int /\ Cardinality(S) \in Nat
  BY <1>1, QueriesAre
<1>7. ASSUME reload # <<>>, NEW src \in reload[1].of PROVE ReloadFits(src)'
  <2> DEFINE P == reload[1].page
             M == QL!Matching(src, status)
             K == QL!Matching(src, status)'
  <2>1. /\ P \in SUBSET DOMAIN log /\ (src = "query_samples" => P \subseteq copied)
        /\ InOrder(M, P, P, Cardinality(P)) /\ (Cardinality(P) < LogPage => ToTheEnd(M, P, P))
    BY <1>1, <1>7 DEF QlTypes, QlSeen, QlPages, ReloadFits
  <2>2. /\ M \in SUBSET Int /\ IsFiniteSet(M) /\ K \in SUBSET Int /\ IsFiniteSet(K) /\ Turned(M, K, P)
    <3>1. M \in SUBSET Int /\ IsFiniteSet(M)
      BY <1>1, MatchingAre
    <3>2. K \in SUBSET Int /\ IsFiniteSet(K) /\ Turned(M, K, P)
      <4>1. PICK s : s = status
        OBVIOUS
      <4>2. M = QL!Matching(src, s) /\ K = QL!Matching(src, s)'
        BY <1>2, <4>1 DEF QL!Matching
      <4> HIDE DEF P, M, K
      <4> QED
        BY <1>1, <2>1, <4>2, SourcesTurned
    <3> QED
      BY <3>1, <3>2
  <2>3. P \subseteq Int /\ Cardinality(P) \in Nat /\ (P = {} => Cardinality(P) = 0)
    BY <1>6, <2>1, FS_EmptySet
  <2>4. reload'[1].page = P /\ QL!Matching(src, status)' = K
    BY <1>2
  <2> HIDE DEF P, M, K
  <2>5. PICK n : n = Cardinality(P)
    OBVIOUS
  <2>6. InOrder(K, P, P, n) /\ (ToTheEnd(M, P, P) => ToTheEnd(K, P, P))
    BY <2>1, <2>2, <2>3, <2>5, OrderSurvives
  <2> QED
    BY <2>1, <2>4, <2>5, <2>6 DEF ReloadFits
<1>8. ASSUME NEW src \in pagesOf
      PROVE  /\ RowsFit(src) => RowsFit(src)'
             /\ more # <<>> /\ QL!rows # {} /\ MoreFits(src) => MoreFits(src)'
  <2> DEFINE R == QL!rows
             M == QL!Matching(src, status)
             K == QL!Matching(src, status)'
  <2>1. /\ R \in SUBSET DOMAIN log /\ (src = "query_samples" => R \subseteq copied) /\ firstPage \in SUBSET R
        /\ (R = {} => length = 0)
    BY <1>1 DEF QlTypes, QlSeen
  <2>2. /\ M \in SUBSET Int /\ IsFiniteSet(M) /\ K \in SUBSET Int /\ IsFiniteSet(K) /\ Turned(M, K, R)
    <3>1. M \in SUBSET Int /\ IsFiniteSet(M)
      BY <1>1, MatchingAre
    <3>2. K \in SUBSET Int /\ IsFiniteSet(K) /\ Turned(M, K, R)
      <4>1. PICK s : s = status
        OBVIOUS
      <4>2. M = QL!Matching(src, s) /\ K = QL!Matching(src, s)'
        BY <1>2, <4>1 DEF QL!Matching
      <4> HIDE DEF R, M, K
      <4> QED
        BY <1>1, <2>1, <4>2, SourcesTurned
    <3> QED
      BY <3>1, <3>2
  <2>3. R \subseteq Int
    BY <1>6, <2>1
  <2>4. QL!rows' = R /\ QL!Matching(src, status)' = K
    BY <1>3
  <2>5. ASSUME RowsFit(src) PROVE RowsFit(src)'
    <3>1. InOrder(M, firstPage, R, length) /\ (exhausted => ToTheEnd(M, firstPage, R))
      BY <2>5 DEF RowsFit
    <3> HIDE DEF R, M, K
    <3>2. InOrder(K, firstPage, R, length) /\ (ToTheEnd(M, firstPage, R) => ToTheEnd(K, firstPage, R))
      BY <1>1, <2>1, <2>2, <2>3, <3>1, OrderSurvives
    <3> QED
      BY <1>2, <2>4, <3>1, <3>2 DEF RowsFit
  <2>6. ASSUME more # <<>>, R # {}, MoreFits(src) PROVE MoreFits(src)'
    <3>1. PICK P : P = more[1].page
      OBVIOUS
    <3>2. FitsBelow(M, P, R, length) /\ P \in SUBSET DOMAIN log
      BY <1>1, <2>6, <3>1 DEF MoreFits, QlTypes
    <3>3. Cardinality(P) \in Nat
      BY <1>6, <3>2
    <3> HIDE DEF R, M, K
    <3>4. FitsBelow(K, P, R, length)
      BY <1>1, <2>2, <2>3, <2>6, <3>2, <3>3, FitSurvives
    <3> QED
      BY <1>2, <2>4, <3>1, <3>4 DEF MoreFits
  <2> QED
    BY <2>5, <2>6
<1>9. QlPages'
  <2>1. reload' # <<>> => \A src \in reload'[1].of : ReloadFits(src)'
    BY <1>2, <1>7
  <2>2. qlLoading' /\ ~crossed' => more' = <<>> /\ ~exhausted'
    BY <1>1, <1>2 DEF QlPages
  <2>3. ~qlLoading' /\ ~error' /\ ~crossed' =>
          /\ \A src \in pagesOf' : RowsFit(src)'
          /\ more' # <<>> => QL!rows' # {} /\ \A src \in pagesOf' \cap more'[1].of : MoreFits(src)'
    BY <1>1, <1>2, <1>3, <1>8 DEF QlPages
  <2> QED
    BY <2>1, <2>2, <2>3 DEF QlPages
<1> QED
  BY <1>4, <1>5, <1>9 DEF QlInv

LEMMA QlKept ==
  ASSUME QlInv, [QL!Next]_(QL!vars)
  PROVE  QlInv'
<1>1. /\ QL!TypeOK /\ log \in Seq(BOOLEAN) /\ length \in Nat /\ QlTypes /\ QlSeen /\ QlPages
      /\ copied \subseteq DOMAIN log /\ retained \subseteq DOMAIN log /\ QL!rows \subseteq DOMAIN log
  BY DEF QlInv, QlTypes, QL!TypeOK
<1>2. \A S \in SUBSET DOMAIN log : S \in SUBSET Int /\ IsFiniteSet(S) /\ Cardinality(S) \in Nat
  BY <1>1, QueriesAre
<1>3. ASSUME NEW s \in QL!Statuses, QL!Reload(s) PROVE QlInv'
  <2>1. PICK answer \in QL!Answers(s, 0) : reload' = <<answer>>
    BY <1>3 DEF QL!Reload
  <2>2. /\ answer \in QL!Answer /\ answer.page \subseteq DOMAIN log
        /\ \A src \in answer.of : answer.page = PageAt(QL!Matching(src, s), 0)
        /\ "query_samples" \in answer.of => answer.page \subseteq copied
    BY <1>1, <2>1, AnswersAre
  <2>3. /\ reload' # <<>> /\ reload'[1] = answer /\ reload' \in Seq(QL!Answer) /\ Len(reload') = 1
    BY <2>1, <2>2
  <2>4. /\ UNCHANGED <<log, copied, retained, firstPage, pagesBelow, length, loadingMore, more, pagesOf>>
        /\ status' = s /\ qlLoading' /\ ~exhausted' /\ error' = FALSE /\ crossed' = (more # <<>>)
        /\ reloads < MaxReloads /\ reloads' = reloads + 1 /\ qlLoading' = TRUE /\ exhausted' = FALSE
    BY <1>3 DEF QL!Reload, QL!sources
  <2>5. QL!rows' = QL!rows /\ reloads' \in 0 .. MaxReloads /\ crossed' \in BOOLEAN
    BY <1>1, <2>4, QlConstants DEF QL!rows, QL!TypeOK
  <2>6. QL!TypeOK'
    <3>1. {qlLoading, loadingMore, exhausted, error, crossed}' \subseteq BOOLEAN
      BY <1>1, <2>4, <2>5 DEF QL!TypeOK
    <3>2. Len(reload') <= 1 /\ Len(more') <= 1
      BY <1>1, <2>3, <2>4 DEF QL!TypeOK
    <3> QED
      BY <1>1, <2>3, <2>4, <2>5, <3>1, <3>2 DEF QL!TypeOK
  <2>7. QlTypes' /\ QlSeen'
    BY <1>1, <2>2, <2>3, <2>4, <2>5, <2>6 DEF QlTypes, QlSeen
  <2>8. ASSUME NEW src \in answer.of PROVE ReloadFits(src)'
    <3>1. PICK P : P = answer.page
      OBVIOUS
    <3>2. PICK M : M = QL!Matching(src, s)
      OBVIOUS
    <3>3. M \in SUBSET Int /\ IsFiniteSet(M) /\ P = PageAt(M, 0)
      BY <1>1, <2>2, <2>8, <3>1, <3>2, MatchingAre
    <3>4. InOrder(M, P, P, Cardinality(P)) /\ (Cardinality(P) < LogPage => ToTheEnd(M, P, P))
      BY <3>3, FirstPageFits
    <3>5. QL!Matching(src, status)' = M
      BY <2>4, <3>2 DEF QL!Matching
    <3> QED
      BY <2>3, <3>1, <3>4, <3>5 DEF ReloadFits
  <2>9. QlPages'
    BY <2>3, <2>4, <2>8 DEF QlPages
  <2> QED
    BY <2>7, <2>9 DEF QlInv
<1>4. ASSUME QL!Reloaded PROVE QlInv'
  <2>1. PICK P : P = reload[1].page
    OBVIOUS
  <2>2. reload # <<>> /\ P \in SUBSET DOMAIN log /\ QL!Cardinality(P) = Cardinality(P) /\ Cardinality(P) \in Nat
    BY <1>1, <1>2, <1>4, <2>1, QlConstants DEF QL!Reloaded, QlTypes
  <2>3. /\ firstPage' = P /\ pagesBelow' = {} /\ length' = Cardinality(P)
        /\ exhausted' = (exhausted \/ Cardinality(P) < LogPage)
        /\ pagesOf' = reload[1].of /\ qlLoading' = FALSE /\ reload' = <<>>
        /\ UNCHANGED <<log, copied, retained, status, loadingMore, error, more, reloads, crossed>>
    BY <1>4, <2>1, <2>2 DEF QL!Reloaded, QL!sources
  <2>4. QL!rows' = P /\ (P = {} => length' = 0)
    BY <2>3, FS_EmptySet DEF QL!rows
  <2>5. reload[1] \in QL!Answer
    BY <1>1, <2>2 DEF QL!TypeOK
  <2>6. P \subseteq QL!Queries /\ pagesOf' \subseteq QL!Sources /\ exhausted' \in BOOLEAN
    BY <1>1, <2>1, <2>3, <2>5 DEF QL!Answer
  <2>7. reload' \in Seq(QL!Answer) /\ Len(reload') = 0
    BY <2>3
  <2>8. QL!TypeOK'
    <3>1. {qlLoading, loadingMore, exhausted, error, crossed}' \subseteq BOOLEAN
      BY <1>1, <2>3, <2>6 DEF QL!TypeOK
    <3>2. Len(reload') <= 1 /\ Len(more') <= 1
      BY <1>1, <2>3, <2>7 DEF QL!TypeOK
    <3> QED
      BY <1>1, <2>2, <2>3, <2>6, <2>7, <3>1, <3>2 DEF QL!TypeOK
  <2>9. QlTypes' /\ QlSeen'
    BY <1>1, <2>1, <2>2, <2>3, <2>4, <2>8 DEF QlTypes, QlSeen
  <2>10. qlLoading /\ (~crossed => more = <<>> /\ ~exhausted)
    BY <1>1, <2>2 DEF QlTypes, QlPages
  <2>11. ASSUME NEW src \in pagesOf', ~crossed PROVE RowsFit(src)'
    <3>1. QL!Matching(src, status)' = QL!Matching(src, status)
      BY <2>3 DEF QL!Matching
    <3>2. ReloadFits(src)
      BY <1>1, <2>2, <2>3, <2>11 DEF QlPages
    <3>3. exhausted' => Cardinality(P) < LogPage
      BY <2>3, <2>10, <2>11
    <3> QED
      BY <2>1, <2>3, <2>4, <3>1, <3>2, <3>3 DEF ReloadFits, RowsFit
  <2>12. QlPages'
    BY <2>3, <2>10, <2>11 DEF QlPages
  <2> QED
    BY <2>9, <2>12 DEF QlInv
<1>5. ASSUME QL!ReloadFails \/ QL!MoreFails PROVE QlInv'
  <2>1. /\ UNCHANGED <<log, copied, retained, status, firstPage, pagesBelow, length, exhausted, reloads,
                       crossed, pagesOf>>
        /\ \/ reload' = <<>> /\ error' = TRUE /\ qlLoading' = FALSE /\ UNCHANGED <<more, loadingMore>>
           \/ more' = <<>> /\ loadingMore' = FALSE /\ UNCHANGED <<reload, error, qlLoading>>
    BY <1>5 DEF QL!ReloadFails, QL!MoreFails, QL!sources
  <2>2. QL!rows' = QL!rows /\ \A src : QL!Matching(src, status)' = QL!Matching(src, status)
    BY <2>1 DEF QL!rows, QL!Matching
  <2>3. /\ reload' \in Seq(QL!Answer) /\ Len(reload') <= 1 /\ more' \in Seq(QL!Answer) /\ Len(more') <= 1
    <3>1. /\ reload \in Seq(QL!Answer) /\ Len(reload) <= 1
          /\ more \in Seq(QL!Answer) /\ Len(more) <= 1
      BY <1>1 DEF QL!TypeOK
    <3>2. (reload' = reload \/ reload' = <<>>) /\ (more' = more \/ more' = <<>>)
      BY <2>1
    <3>3. <<>> \in Seq(QL!Answer) /\ Len(<<>>) <= 1
      OBVIOUS
    <3> QED
      BY <3>1, <3>2, <3>3
  <2>4. QL!TypeOK'
    <3>1. {qlLoading, loadingMore, exhausted, error, crossed}' \subseteq BOOLEAN
      BY <1>1, <2>1 DEF QL!TypeOK
    <3>2. Len(reload') <= 1 /\ Len(more') <= 1
      BY <2>3
    <3> QED
      BY <1>1, <2>1, <2>3, <3>1, <3>2 DEF QL!TypeOK
  <2>5. QlTypes' /\ QlSeen'
    BY <1>1, <2>1, <2>2, <2>4 DEF QlTypes, QlSeen
  <2>6. QlPages'
    BY <1>1, <2>1, <2>2 DEF QlPages, ReloadFits, RowsFit, MoreFits
  <2> QED
    BY <2>5, <2>6 DEF QlInv
<1>6. ASSUME QL!LoadMore PROVE QlInv'
  <2>1. PICK answer \in QL!Answers(status, length) : more' = <<answer>>
    BY <1>6 DEF QL!LoadMore
  <2>2. /\ answer \in QL!Answer /\ answer.page \subseteq DOMAIN log
        /\ \A src \in answer.of : answer.page = PageAt(QL!Matching(src, status), length)
        /\ "query_samples" \in answer.of => answer.page \subseteq copied
    BY <1>1, <2>1, AnswersAre
  <2>3. more' # <<>> /\ more'[1] = answer /\ more' \in Seq(QL!Answer) /\ Len(more') = 1
    BY <2>1, <2>2
  <2>4. /\ UNCHANGED <<log, copied, retained, status, firstPage, pagesBelow, length, qlLoading, exhausted,
                       error, reload, reloads, crossed, pagesOf>>
        /\ loadingMore' = TRUE
    BY <1>6 DEF QL!LoadMore, QL!sources
  <2>5. QL!rows' = QL!rows /\ \A src : QL!Matching(src, status)' = QL!Matching(src, status)
    BY <2>4 DEF QL!rows, QL!Matching
  <2>6. ~qlLoading /\ QL!rows # {}
    BY <1>6 DEF QL!LoadMore, QL!MoreOffered, QL!displayRows
  <2>7. QL!TypeOK'
    BY <1>1, <2>3, <2>4 DEF QL!TypeOK
  <2>8. QlTypes' /\ QlSeen'
    BY <1>1, <2>2, <2>3, <2>4, <2>5, <2>7 DEF QlTypes, QlSeen
  <2>9. ASSUME NEW src \in answer.of, RowsFit(src) PROVE MoreFits(src)'
    <3>1. PICK P : P = answer.page
      OBVIOUS
    <3>2. PICK M : M = QL!Matching(src, status)
      OBVIOUS
    <3>3. M \in SUBSET Int /\ IsFiniteSet(M) /\ P = PageAt(M, length) /\ InOrder(M, firstPage, QL!rows, length)
      BY <1>1, <2>2, <2>9, <3>1, <3>2, MatchingAre DEF RowsFit
    <3>4. FitsBelow(M, P, QL!rows, length)
      BY <1>1, <3>3, NextPageFits
    <3> QED
      BY <2>3, <2>4, <2>5, <3>1, <3>2, <3>4 DEF MoreFits
  <2>10. QlPages'
    BY <1>1, <2>3, <2>4, <2>5, <2>6, <2>9 DEF QlPages, ReloadFits, RowsFit
  <2> QED
    BY <2>8, <2>10 DEF QlInv
<1>7. ASSUME QL!MoreLoaded PROVE QlInv'
  <2>1. PICK P : P = more[1].page
    OBVIOUS
  <2>2. more # <<>> /\ P \in SUBSET DOMAIN log /\ QL!Cardinality(P) = Cardinality(P) /\ Cardinality(P) \in Nat
    BY <1>1, <1>2, <1>7, <2>1, QlConstants DEF QL!MoreLoaded, QlTypes
  <2>3. /\ pagesBelow' = pagesBelow \cup P /\ length' = length + Cardinality(P)
        /\ exhausted' = (exhausted \/ Cardinality(P) < LogPage)
        /\ pagesOf' = pagesOf \cap more[1].of /\ loadingMore' = FALSE /\ more' = <<>>
        /\ UNCHANGED <<log, copied, retained, status, firstPage, qlLoading, error, reload, reloads, crossed>>
    BY <1>7, <2>1, <2>2 DEF QL!MoreLoaded, QL!sources
  <2>4. QL!rows' = QL!rows \cup P /\ \A src : QL!Matching(src, status)' = QL!Matching(src, status)
    BY <2>3 DEF QL!rows, QL!Matching
  <2>5. QL!rows' = {} => length' = 0
    <3> SUFFICES ASSUME QL!rows' = {} PROVE length' = 0
      OBVIOUS
    <3>1. QL!rows = {} /\ P = {}
      BY <2>4
    <3>2. length = 0 /\ Cardinality(P) = 0
      BY <1>1, <3>1, FS_EmptySet DEF QlTypes
    <3> QED
      BY <2>3, <3>2
  <2>6. more[1] \in QL!Answer
    BY <1>1, <2>2 DEF QL!TypeOK
  <2>7. /\ pagesBelow' \subseteq QL!Queries /\ pagesOf' \subseteq QL!Sources /\ exhausted' \in BOOLEAN
        /\ length' \in Nat /\ more' \in Seq(QL!Answer) /\ Len(more') = 0
    BY <1>1, <2>1, <2>2, <2>3, <2>6 DEF QL!Answer, QL!TypeOK
  <2>8. QL!TypeOK'
    <3>1. {qlLoading, loadingMore, exhausted, error, crossed}' \subseteq BOOLEAN
      BY <1>1, <2>3, <2>7 DEF QL!TypeOK
    <3>2. Len(reload') <= 1 /\ Len(more') <= 1
      BY <1>1, <2>3, <2>7 DEF QL!TypeOK
    <3> QED
      BY <1>1, <2>3, <2>7, <3>1, <3>2 DEF QL!TypeOK
  <2>9. QlTypes' /\ QlSeen'
    BY <1>1, <2>1, <2>2, <2>3, <2>4, <2>5, <2>8 DEF QlTypes, QlSeen
  <2>10. qlLoading => crossed
    BY <1>1, <2>2 DEF QlPages
  <2>11. ASSUME ~qlLoading, ~error, ~crossed, NEW src \in pagesOf' PROVE RowsFit(src)'
    <3>1. RowsFit(src) /\ MoreFits(src)
      BY <1>1, <2>2, <2>3, <2>11 DEF QlPages
    <3>2. PICK M : M = QL!Matching(src, status)
      OBVIOUS
    <3>3. M \in SUBSET Int /\ QL!rows \in SUBSET Int
      BY <1>1, <1>2, <3>2, MatchingAre
    <3>4. /\ InOrder(M, firstPage, QL!rows, length) /\ FitsBelow(M, P, QL!rows, length)
          /\ exhausted => ToTheEnd(M, firstPage, QL!rows)
      BY <2>1, <3>1, <3>2 DEF RowsFit, MoreFits
    <3>5. /\ InOrder(M, firstPage, QL!rows \cup P, length + Cardinality(P))
          /\ ToTheEnd(M, firstPage, QL!rows) \/ Cardinality(P) < LogPage => ToTheEnd(M, firstPage, QL!rows \cup P)
      BY <1>1, <3>3, <3>4, RowsGrow
    <3> QED
      BY <2>3, <2>4, <3>2, <3>4, <3>5 DEF RowsFit
  <2>12. QlPages'
    BY <1>1, <2>3, <2>4, <2>10, <2>11 DEF QlPages, ReloadFits
  <2> QED
    BY <2>9, <2>12 DEF QlInv
<1>8. ASSUME UNCHANGED QL!vars PROVE QlInv'
  <2>1. UNCHANGED <<log, copied, retained, status, firstPage, pagesBelow, length, qlLoading, loadingMore,
                    exhausted, error, reload, more, reloads, crossed, pagesOf>>
    BY <1>8 DEF QL!vars, QL!state, QL!sources
  <2>2. QL!rows' = QL!rows /\ \A src : QL!Matching(src, status)' = QL!Matching(src, status)
    BY <2>1 DEF QL!rows, QL!Matching
  <2>3. QlTypes' /\ QlSeen'
    BY <1>1, <2>1, <2>2 DEF QlTypes, QlSeen, QL!TypeOK
  <2>4. QlPages'
    BY <1>1, <2>1, <2>2 DEF QlPages, ReloadFits, RowsFit, MoreFits
  <2> QED
    BY <2>3, <2>4 DEF QlInv
<1>9. ASSUME SourcesTurn PROVE QlInv'
  BY <1>9, SourcesKeep
<1> QED
  BY <1>3, <1>4, <1>5, <1>6, <1>7, <1>8, <1>9 DEF QL!Next, SourcesTurn

-----------------------------------------------------------------------------
(* Tables                                                                   *)

LEMMA DtConstants ==
  /\ PageSize \in Nat /\ PageSize > 0 /\ MaxRows \in Nat
  /\ DT!Unsorted \notin Columns /\ Cells \subseteq Int
  /\ \A S : DT!Cardinality(S) = Cardinality(S)
<1>1. \A S : DT!Cardinality(S) = Cardinality(S)
  BY DEF DT!Cardinality, Cardinality
<1> QED
  BY ListsFit, <1>1 DEF DT!ConstantsOK

LEMMA TheLess ==
  ASSUME NEW a \in Int, NEW b \in Int
  PROVE  DT!Min({a, b}) = IF a <= b THEN a ELSE b
  BY DEF DT!Min

LEMMA TheMore ==
  ASSUME NEW a \in Int, NEW b \in Int
  PROVE  DT!Max({a, b}) = IF a >= b THEN a ELSE b
  BY DEF DT!Max

(* As many pages as the rows fill: the last one begins with a row.          *)
LEMMA LastPageBegins ==
  ASSUME NEW n \in Nat, n > 0, NEW p \in Nat, p > 0, NEW t, t = (n + p - 1) \div p
  PROVE  t \in Nat /\ t >= 1 /\ (t - 1) * p < n
<1>1. PICK m : m = n + p - 1
  OBVIOUS
<1>2. m \in Nat /\ m >= p
  BY <1>1
<1>3. t = m \div p /\ t \in Nat /\ t * p <= m /\ m < (t + 1) * p
  BY <1>1, <1>2
<1>4. t >= 1
  <2> SUFFICES ASSUME t = 0 PROVE FALSE
    BY <1>3
  <2>1. (t + 1) * p = p
    OBVIOUS
  <2> QED
    BY <1>2, <1>3, <2>1
<1>5. (t - 1) * p = t * p - p
  BY <1>3
<1> QED
  BY <1>1, <1>3, <1>4, <1>5

LEMMA PageBegins ==
  ASSUME NEW n \in Nat, NEW p \in Nat, p > 0, NEW t \in Nat, t >= 1, (t - 1) * p < n, NEW c \in Nat, c <= t - 1
  PROVE  c * p < n /\ c * p \in Nat /\ (c + 1) * p = c * p + p
<1>1. c * p <= (t - 1) * p
  OBVIOUS
<1>2. c * p \in Nat /\ (t - 1) * p \in Nat
  OBVIOUS
<1>3. (c + 1) * p = c * p + p
  OBVIOUS
<1> QED
  BY <1>1, <1>2, <1>3

LEMMA PageIsThere ==
  ASSUME DT!TypeOK
  PROVE  /\ Len(source) \in Nat /\ DT!totalPages \in Int
         /\ DT!clampedPage \in Nat /\ DT!clampedPage <= page
         /\ source # <<>> =>
               /\ DT!totalPages >= 1 /\ DT!clampedPage <= DT!totalPages - 1
               /\ (DT!totalPages - 1) * PageSize < Len(source)
<1>1. Len(source) \in Nat /\ page \in Nat /\ PageSize \in Nat /\ PageSize > 0
  BY DtConstants DEF DT!TypeOK
<1>2. DT!totalPages = (Len(source) + PageSize - 1) \div PageSize
  BY DEF DT!totalPages, DT!CeilDiv
<1>3. Len(source) + PageSize - 1 \in Nat
  BY <1>1
<1>4. DT!totalPages \in Int
  BY <1>1, <1>2, <1>3
<1>5. DT!Max({0, DT!totalPages - 1}) = IF 0 >= DT!totalPages - 1 THEN 0 ELSE DT!totalPages - 1
  BY <1>4, TheMore
<1>6. PICK m \in Nat : m = DT!Max({0, DT!totalPages - 1})
  BY <1>4, <1>5
<1>7. DT!clampedPage = IF page <= m THEN page ELSE m
  <2>1. DT!clampedPage = DT!Min({page, m})
    BY <1>6 DEF DT!clampedPage
  <2>2. page \in Int /\ m \in Int
    BY <1>1
  <2> QED
    BY <2>1, <2>2, TheLess
<1>8. ASSUME source # <<>>
      PROVE  DT!totalPages >= 1 /\ (DT!totalPages - 1) * PageSize < Len(source)
  <2>1. Len(source) > 0
    BY <1>8 DEF DT!TypeOK
  <2> QED
    BY <1>1, <1>2, <2>1, LastPageBegins
<1>9. source # <<>> => m = DT!totalPages - 1
  BY <1>4, <1>5, <1>6, <1>8
<1> QED
  BY <1>1, <1>4, <1>6, <1>7, <1>8, <1>9

LEMMA RowsAreVisible ==
  ASSUME DT!TypeOK, source # <<>>
  PROVE  Len(DT!visible) \in Nat /\ Len(DT!visible) >= 1 /\ DT!visible # <<>>
<1>1. PICK n, p, c, t : n = Len(source) /\ p = PageSize /\ c = DT!clampedPage /\ t = DT!totalPages
  OBVIOUS
<1>2. /\ n \in Nat /\ p \in Nat /\ p > 0 /\ c \in Nat /\ t \in Nat /\ t >= 1 /\ c <= t - 1 /\ (t - 1) * p < n
  BY <1>1, PageIsThere, DtConstants
<1>3. c * p < n /\ c * p \in Nat /\ (c + 1) * p = c * p + p
  BY <1>2, PageBegins
<1>4. (c + 1) * p \in Int
  BY <1>2, <1>3
<1>5. PICK last \in Int : last = DT!Min({(c + 1) * p, n}) /\ last >= c * p + 1
  BY <1>2, <1>3, <1>4, TheLess
<1>6. DT!visible = SubSeq(DT!sorted, c * p + 1, last)
  BY <1>1, <1>5 DEF DT!visible
<1>7. PICK m, s : m \in Int /\ m = c * p + 1 /\ s = DT!sorted
  BY <1>3
<1>8. PICK S : S = {s[i] : i \in m .. last}
  OBVIOUS
<1>9. \A i \in m .. last : s[i] \in S
  BY <1>8
<1>10. SubSeq(s, m, last) \in Seq(S) /\ Len(SubSeq(s, m, last)) = last - m + 1
  BY <1>5, <1>7, <1>9, SubSeqProperties
<1>11. DT!visible = SubSeq(s, m, last)
  BY <1>6, <1>7
<1>12. last - m + 1 \in Nat /\ last - m + 1 >= 1
  BY <1>5, <1>7
<1>13. Len(DT!visible) = last - m + 1 /\ DT!visible \in Seq(S)
  BY <1>10, <1>11
<1> QED
  BY <1>12, <1>13

(* The order of the table: by the column, then as in the data.              *)
Ahead(i) ==
    {j \in DOMAIN source : DT!Before(source[j], source[i])
                           \/ (j < i /\ ~DT!Before(source[i], source[j]))}

LEMMA AheadIsAnOrder ==
  ASSUME DT!TypeOK, sortKey # DT!Unsorted, NEW i \in DOMAIN source, NEW j \in DOMAIN source
  PROVE  /\ i \notin Ahead(i)
         /\ i = j \/ i \in Ahead(j) \/ j \in Ahead(i)
         /\ j \in Ahead(i) => Ahead(j) \subseteq Ahead(i) /\ i \notin Ahead(j)
         /\ j \in Ahead(i) /\ (source[j][sortKey] = DT!Null) => source[i][sortKey] = DT!Null
<1>1. \A k \in DOMAIN source : source[k][sortKey] \in Int /\ k \in Nat
  <2> SUFFICES ASSUME NEW k \in DOMAIN source PROVE source[k][sortKey] \in Int /\ k \in Nat
    OBVIOUS
  <2>1. source[k] \in [Columns -> Cells] /\ k \in Nat /\ sortKey \in Columns
    BY DEF DT!TypeOK, DT!Row
  <2>2. source[k][sortKey] \in Cells
    BY <2>1
  <2> QED
    BY <2>1, <2>2, DtConstants
<1> DEFINE v(k) == source[k][sortKey]
<1>2. DT!Null \in Int
  BY DEF DT!Null
<1>3. \A k, l \in DOMAIN source :
         DT!Before(source[k], source[l]) <=>
            /\ v(k) # DT!Null
            /\ v(l) = DT!Null \/ (IF sortAsc THEN v(k) < v(l) ELSE v(k) > v(l))
  BY DEF DT!Before
<1>4. \A k \in DOMAIN source : v(k) \in Int
  BY <1>1
<1> HIDE DEF v
<1>5. \A k, l \in DOMAIN source :
         k \in Ahead(l) <=> \/ v(k) # DT!Null /\ (v(l) = DT!Null \/ IF sortAsc THEN v(k) < v(l) ELSE v(k) > v(l))
                            \/ k < l /\ v(k) = v(l)
                            \/ k < l /\ v(k) # DT!Null /\ v(l) = DT!Null
  <2> SUFFICES ASSUME NEW k \in DOMAIN source, NEW l \in DOMAIN source
               PROVE  k \in Ahead(l) <=>
                            \/ v(k) # DT!Null /\ (v(l) = DT!Null \/ IF sortAsc THEN v(k) < v(l) ELSE v(k) > v(l))
                            \/ k < l /\ v(k) = v(l)
                            \/ k < l /\ v(k) # DT!Null /\ v(l) = DT!Null
    OBVIOUS
  <2>1. k \in Ahead(l) <=> DT!Before(source[k], source[l]) \/ (k < l /\ ~DT!Before(source[l], source[k]))
    BY DEF Ahead
  <2>2. v(k) \in Int /\ v(l) \in Int /\ k \in Nat /\ l \in Nat
    BY <1>1, <1>4
  <2> QED
    BY <1>2, <1>3, <2>1, <2>2
<1>6. i \notin Ahead(i) /\ (i = j \/ i \in Ahead(j) \/ j \in Ahead(i))
  BY <1>1, <1>2, <1>4, <1>5
<1>7. ASSUME j \in Ahead(i), NEW k \in DOMAIN source, k \in Ahead(j) PROVE k \in Ahead(i)
  <2>1. v(i) \in Int /\ v(j) \in Int /\ v(k) \in Int /\ i \in Nat /\ j \in Nat /\ k \in Nat
    BY <1>1, <1>4
  <2> QED
    BY <1>2, <1>5, <1>7, <2>1
<1>8. j \in Ahead(i) => i \notin Ahead(j)
  BY <1>1, <1>2, <1>4, <1>5
<1>9. j \in Ahead(i) /\ v(j) = DT!Null => v(i) = DT!Null
  BY <1>5
<1>10. Ahead(j) \subseteq DOMAIN source
  BY DEF Ahead
<1> QED
  BY <1>6, <1>7, <1>8, <1>9, <1>10 DEF v

LEMMA RanksPlace ==
  ASSUME DT!TypeOK, sortKey # DT!Unsorted, NEW n, n = Len(source)
  PROVE  \E place \in Bijection(1 .. n, 1 .. n) :
            /\ \A k \in 1 .. n : DT!sorted[k] = source[place[k]]
            /\ \A k, l \in 1 .. n : k < l => place[k] \in Ahead(place[l])
<1> DEFINE D == DOMAIN source
<1>1. n \in Nat /\ D = 1 .. n /\ IsFiniteSet(D) /\ Cardinality(D) = n
  <2>1. n \in Nat /\ D = 1 .. n
    BY DEF DT!TypeOK
  <2> HIDE DEF D
  <2>2. 1 \in Int /\ n \in Int
    BY <2>1
  <2>3. IsFiniteSet(1 .. n) /\ Cardinality(1 .. n) = IF 1 > n THEN 0 ELSE n - 1 + 1
    BY <2>2, FS_Interval
  <2>4. Cardinality(1 .. n) = n
    BY <2>1, <2>3
  <2> QED
    BY <2>1, <2>3, <2>4
<1>2. PICK before : before = [i \in D |-> Ahead(i)]
  OBVIOUS
<1>3. /\ before \in [D -> SUBSET D]
      /\ \A x \in D : x \notin before[x]
      /\ \A x, y \in D : y \in before[x] => before[y] \subseteq before[x]
      /\ \A x, y \in D : x = y \/ x \in before[y] \/ y \in before[x]
  <2>1. \A x \in D : Ahead(x) \in SUBSET D
    BY DEF Ahead
  <2> HIDE DEF D
  <2>2. \A x, y \in D : /\ x \notin Ahead(x)
                        /\ y \in Ahead(x) => Ahead(y) \subseteq Ahead(x)
                        /\ x = y \/ x \in Ahead(y) \/ y \in Ahead(x)
    BY AheadIsAnOrder DEF D
  <2> QED
    BY <1>2, <2>1, <2>2
<1>4. PICK rank : rank = [x \in D |-> Cardinality(before[x])]
  OBVIOUS
<1>5. /\ rank \in Bijection(D, 0 .. n - 1)
      /\ \A x, y \in D : y \in before[x] <=> rank[y] < rank[x]
  BY <1>1, <1>3, <1>4, RanksNumber
<1>6. ASSUME NEW i \in D PROVE DT!Rank(i) = rank[i] + 1
  <2>1. PICK S : S = Ahead(i)
    OBVIOUS
  <2>2. S \subseteq D /\ i \notin S
    BY <1>6, <2>1, AheadIsAnOrder DEF Ahead
  <2>3. ~DT!Before(source[i], source[i])
    <3>1. i \notin Ahead(i)
      BY <1>6, AheadIsAnOrder
    <3> QED
      BY <1>6, <3>1 DEF Ahead
  <2>4. {j \in D : DT!Before(source[j], source[i]) \/ (j <= i /\ ~DT!Before(source[i], source[j]))} = S \cup {i}
    <3>1. \A j \in D : j <= i <=> j < i \/ j = i
      BY <1>1
    <3> QED
      BY <1>6, <2>1, <2>3, <3>1 DEF Ahead
  <2>5. IsFiniteSet(S)
    BY <1>1, <2>2, FS_Subset
  <2>6. Cardinality(S \cup {i}) = Cardinality(S) + 1
    BY <2>2, <2>5, FS_AddElement
  <2>7. rank[i] = Cardinality(S)
    BY <1>2, <1>4, <2>1
  <2> QED
    BY <2>4, <2>6, <2>7, DtConstants DEF DT!Rank
<1> HIDE DEF D
<1>7. \A i \in D : rank[i] \in 0 .. n - 1
  BY <1>5 DEF Bijection, Injection
<1>8. PICK place : place = [k \in 1 .. n |-> CHOOSE i \in D : DT!Rank(i) = k]
  OBVIOUS
<1>9. ASSUME NEW k \in 1 .. n PROVE place[k] \in 1 .. n /\ rank[place[k]] = k - 1
  <2>1. k - 1 \in 0 .. n - 1 /\ (k - 1) + 1 = k
    BY <1>1
  <2>2. PICK i \in D : rank[i] = k - 1
    BY <1>5, <2>1 DEF Bijection, Surjection
  <2>3. DT!Rank(i) = k
    BY <1>6, <2>1, <2>2
  <2>4. place[k] \in D /\ DT!Rank(place[k]) = k
    BY <1>8, <2>3
  <2>5. rank[place[k]] + 1 = k /\ rank[place[k]] \in Int
    BY <1>6, <1>7, <2>4
  <2> QED
    BY <1>1, <2>4, <2>5
<1>10. \A k, l \in 1 .. n : place[k] = place[l] => k = l
  <2> SUFFICES ASSUME NEW k \in 1 .. n, NEW l \in 1 .. n, place[k] = place[l] PROVE k = l
    OBVIOUS
  <2>1. k - 1 = l - 1
    BY <1>9
  <2> QED
    BY <2>1
<1>11. \A i \in 1 .. n : \E k \in 1 .. n : place[k] = i
  <2> SUFFICES ASSUME NEW i \in 1 .. n PROVE \E k \in 1 .. n : place[k] = i
    OBVIOUS
  <2>1. PICK k \in 1 .. n : rank[i] = k - 1
    <3>1. rank[i] \in 0 .. n - 1
      BY <1>1, <1>7
    <3>2. rank[i] + 1 \in 1 .. n /\ (rank[i] + 1) - 1 = rank[i]
      BY <1>1, <3>1
    <3> QED
      BY <3>2
  <2>2. rank[place[k]] = rank[i] /\ place[k] \in D /\ i \in D
    BY <1>1, <1>9, <2>1
  <2>3. place[k] = i
    BY <1>5, <2>2 DEF Bijection, Injection, IsInjective
  <2> QED
    BY <2>3
<1>12. place \in Bijection(1 .. n, 1 .. n)
  BY <1>8, <1>9, <1>10, <1>11 DEF Bijection, Injection, Surjection, IsInjective
<1>13. \A k \in 1 .. n : DT!sorted[k] = source[place[k]]
  BY <1>1, <1>8 DEF DT!sorted, D
<1>14. ASSUME NEW k \in 1 .. n, NEW l \in 1 .. n, k < l PROVE place[k] \in Ahead(place[l])
  <2>1. rank[place[k]] < rank[place[l]] /\ place[k] \in D /\ place[l] \in D
    BY <1>1, <1>9, <1>14
  <2> QED
    BY <1>2, <1>5, <2>1
<1> QED
  BY <1>12, <1>13, <1>14

LEMMA PagesAreRight == DT!TypeOK => DT!PagesShowTheData
<1> SUFFICES ASSUME DT!TypeOK PROVE DT!PagesShowTheData
  OBVIOUS
<1>1. PICK n : n = Len(source)
  OBVIOUS
<1>2. n \in Nat /\ DOMAIN source = 1 .. n /\ DOMAIN DT!sorted = 1 .. n
  BY <1>1 DEF DT!TypeOK, DT!sorted
<1>3. source # <<>> => DT!visible # <<>>
  BY RowsAreVisible
<1>4. CASE sortKey = DT!Unsorted
  <2>1. DT!sorted = source
    BY <1>4 DEF DT!sorted
  <2> QED
    BY <1>3, <1>4, <2>1 DEF DT!PagesShowTheData
<1>5. CASE sortKey # DT!Unsorted
  <2>1. PICK place \in Bijection(1 .. n, 1 .. n) :
           /\ \A k \in 1 .. n : DT!sorted[k] = source[place[k]]
           /\ \A k, l \in 1 .. n : k < l => place[k] \in Ahead(place[l])
    BY <1>1, <1>5, RanksPlace
  <2>2. ASSUME NEW row PROVE DT!Occurrences(row, DT!sorted) = DT!Occurrences(row, source)
    <3>1. PICK A, B : /\ A = {i \in 1 .. n : DT!sorted[i] = row}
                      /\ B = {i \in 1 .. n : source[i] = row}
      OBVIOUS
    <3>2. IsFiniteSet(A)
      <4>1. IsFiniteSet(1 .. n) /\ A \in SUBSET (1 .. n)
        BY <1>2, <3>1, FS_Interval
      <4> QED
        BY <4>1, FS_Subset
    <3>3. PICK f : f = [i \in A |-> place[i]]
      OBVIOUS
    <3>4. f \in [A -> B]
      BY <2>1, <3>1, <3>3 DEF Bijection, Injection
    <3>5. \A i, j \in A : f[i] = f[j] => i = j
      BY <2>1, <3>1, <3>3 DEF Bijection, Injection, IsInjective
    <3>6. \A j \in B : \E i \in A : f[i] = j
      <4> SUFFICES ASSUME NEW j \in B PROVE \E i \in A : f[i] = j
        OBVIOUS
      <4>1. j \in 1 .. n /\ source[j] = row
        BY <3>1
      <4>2. PICK i \in 1 .. n : place[i] = j
        BY <2>1, <4>1 DEF Bijection, Surjection
      <4>3. DT!sorted[i] = row
        BY <2>1, <4>1, <4>2
      <4>4. i \in A
        BY <3>1, <4>3
      <4> QED
        BY <3>3, <4>2, <4>4
    <3>7. ExistsBijection(A, B)
      BY <3>4, <3>5, <3>6 DEF ExistsBijection, Bijection, Injection, Surjection, IsInjective
    <3>8. Cardinality(A) = Cardinality(B)
      BY <3>2, <3>7, FS_Bijection
    <3> QED
      BY <1>2, <3>1, <3>8, DtConstants DEF DT!Occurrences
  <2>3. ASSUME NEW i \in 1 .. n, NEW j \in 1 .. n, DT!sorted[i][sortKey] = DT!Null, i < j
        PROVE  DT!sorted[j][sortKey] = DT!Null
    <3>1. place[i] \in Ahead(place[j]) /\ place[i] \in 1 .. n /\ place[j] \in 1 .. n
      BY <2>1, <2>3 DEF Bijection, Injection
    <3>2. source[place[i]][sortKey] = DT!Null
      BY <2>1, <2>3
    <3> QED
      BY <1>2, <1>5, <2>1, <3>1, <3>2, AheadIsAnOrder
  <2> QED
    BY <1>2, <1>3, <2>2, <2>3 DEF DT!PagesShowTheData
<1> QED
  BY <1>4, <1>5

LEMMA DtStarts == DT!Init => DT!TypeOK
  BY DEF DT!Init, DT!Mount, DT!TypeOK, DT!Sort

LEMMA DtKept ==
  ASSUME DT!TypeOK, [DT!Next]_(DT!vars)
  PROVE  DT!TypeOK'
<1>1. /\ source \in Seq(DT!Row) /\ page \in Nat /\ focusedRow \in {DT!Nowhere} \cup Nat
      /\ storedSort \in DT!Sort /\ sortKey \in Columns \cup {DT!Unsorted} /\ sortAsc \in BOOLEAN
      /\ storedSort.col \in Columns \cup {DT!Unsorted} /\ storedSort.asc \in BOOLEAN
  BY DEF DT!TypeOK, DT!Sort
<1>2. ASSUME NEW n \in 0 .. MaxRows, NEW rows \in [1 .. n -> DT!Row], DT!Load(rows) PROVE DT!TypeOK'
  <2>1. rows \in Seq(DT!Row)
    BY DtConstants
  <2> QED
    BY <1>1, <1>2, <2>1 DEF DT!Load, DT!TypeOK
<1>3. ASSUME DT!Remount PROVE DT!TypeOK'
  BY <1>1, <1>3 DEF DT!Remount, DT!TypeOK
<1>4. ASSUME NEW col \in Columns, DT!handleSort(col) PROVE DT!TypeOK'
  <2>1. /\ page' = 0 /\ sortKey' = col /\ sortAsc' = (col = sortKey => ~sortAsc)
        /\ storedSort' = [col |-> col, asc |-> sortAsc'] /\ UNCHANGED <<source, focusedRow>>
    BY <1>4 DEF DT!handleSort
  <2>2. sortAsc' \in BOOLEAN
    BY <2>1
  <2>3. storedSort' \in DT!Sort
    BY <2>1, <2>2 DEF DT!Sort
  <2> QED
    BY <1>1, <2>1, <2>2, <2>3 DEF DT!TypeOK
<1>5. ASSUME NEW p \in Nat, DT!TurnTo(p) PROVE DT!TypeOK'
  BY <1>1, <1>5 DEF DT!TurnTo, DT!TypeOK
<1>6. ASSUME DT!PreviousPage PROVE DT!TypeOK'
  <2>1. DT!Max({0, page - 1}) \in Nat
    BY <1>1, TheMore
  <2> QED
    BY <1>5, <1>6, <2>1 DEF DT!PreviousPage
<1>7. ASSUME DT!NextPage PROVE DT!TypeOK'
  <2>1. DT!totalPages - 1 \in Int /\ DT!totalPages - 1 >= 0 /\ page + 1 \in Int
    BY <1>1, <1>7, PageIsThere DEF DT!NextPage
  <2>2. DT!Min({DT!totalPages - 1, page + 1}) \in Nat
    BY <1>1, <2>1, TheLess
  <2> QED
    BY <1>5, <1>7, <2>2 DEF DT!NextPage
<1>8. ASSUME NEW i \in Nat, DT!Focus(i) PROVE DT!TypeOK'
  BY <1>1, <1>8 DEF DT!Focus, DT!TypeOK
<1>9. focusedRow \in Int
  BY <1>1 DEF DT!Nowhere
<1>10. ASSUME DT!Down PROVE DT!TypeOK'
  <2>1. source # <<>>
    BY <1>10 DEF DT!Down, DT!Focus
  <2>2. Len(DT!visible) - 1 \in Int /\ Len(DT!visible) - 1 >= 0
    BY <2>1, RowsAreVisible
  <2>3. focusedRow # DT!Nowhere => DT!Min({Len(DT!visible) - 1, focusedRow + 1}) \in Nat
    BY <1>1, <1>9, <2>2, TheLess
  <2> QED
    BY <1>8, <1>10, <2>3 DEF DT!Down
<1>11. ASSUME DT!Up PROVE DT!TypeOK'
  <2>1. DT!Max({0, focusedRow - 1}) \in Nat
    BY <1>9, TheMore
  <2> QED
    BY <1>8, <1>11, <2>1 DEF DT!Up
<1>12. ASSUME NEW i \in 0 .. PageSize - 1, DT!Click(i) PROVE DT!TypeOK'
  BY <1>8, <1>12 DEF DT!Click
<1>13. ASSUME UNCHANGED DT!vars PROVE DT!TypeOK'
  BY <1>13 DEF DT!vars, DT!TypeOK
<1> QED
  BY <1>2, <1>3, <1>4, <1>6, <1>7, <1>10, <1>11, <1>12, <1>13 DEF DT!Next

-----------------------------------------------------------------------------
(* The widgets of the overview                                              *)

LEMMA WlConstants ==
  /\ Types \in Seq(STRING) /\ Len(Types) \in Nat /\ DOMAIN Types = 1 .. Len(Types)
  /\ MaxBuilds \in Nat /\ MaxBuilds >= 1 /\ MaxBuilds <= Len(Types)
  /\ \A i, j \in 1 .. Len(Types) : Types[i] = Types[j] => i = j
  /\ \A S : WL!Cardinality(S) = Cardinality(S)
  /\ WL!Range(Types) = {Types[i] : i \in 1 .. Len(Types)}
<1>1. Types \in Seq(STRING) /\ WL!IsInjective(Types) /\ MaxBuilds \in 1 .. Len(Types)
  BY ListsFit DEF WL!ConstantsOK
<1>2. Len(Types) \in Nat /\ DOMAIN Types = 1 .. Len(Types)
  BY <1>1
<1>3. \A i, j \in 1 .. Len(Types) : Types[i] = Types[j] => i = j
  BY <1>1, <1>2 DEF WL!IsInjective
<1>4. \A S : WL!Cardinality(S) = Cardinality(S)
  BY DEF WL!Cardinality, Cardinality
<1>5. WL!Range(Types) = {Types[i] : i \in 1 .. Len(Types)}
  BY <1>2 DEF WL!Range
<1> QED
  BY <1>1, <1>2, <1>3, <1>4, <1>5

(* A layout of the first b widgets: each once, at a place of its own.       *)
Whole(S, b) ==
    /\ S \subseteq WL!Widget
    /\ \A i \in 1 .. b : \E w \in S : w.type = Types[i]
    /\ \A k \in 0 .. b - 1 : \E w \in S : w.order = k
    /\ \A w \in S : w.order \in 0 .. b - 1 /\ \E i \in 1 .. b : w.type = Types[i]
    /\ \A w, v \in S : w.type = v.type \/ w.order = v.order => w = v

WlInv ==
    /\ WL!TypeOK
    /\ Whole(widgets, build)
    /\ wlStored # {} => /\ \E b \in 1 .. build : Whole(wlStored, b)
                        /\ wlStored \subseteq widgets
                        /\ \A w \in widgets \ wlStored, v \in wlStored : v.order < w.order

LEMMA WholeHasAll ==
  ASSUME NEW b \in 1 .. Len(Types), NEW S, Whole(S, b)
  PROVE  /\ IsFiniteSet(S) /\ Cardinality(S) = b
         /\ {w.order : w \in S} = 0 .. b - 1 /\ Cardinality(0 .. b - 1) = b
         /\ {w.type : w \in S} = {Types[i] : i \in 1 .. b}
<1>1. b \in Nat /\ b >= 1
  BY WlConstants
<1>2. IsFiniteSet(0 .. b - 1) /\ Cardinality(0 .. b - 1) = b
  <2>1. 0 \in Int /\ b - 1 \in Int /\ ~(0 > b - 1) /\ (b - 1) - 0 + 1 = b
    BY <1>1
  <2> QED
    BY <2>1, FS_Interval
<1>3. PICK f : f = [w \in S |-> w.order]
  OBVIOUS
<1>4. f \in Injection(S, 0 .. b - 1)
  <2>1. f \in [S -> 0 .. b - 1]
    BY <1>3 DEF Whole
  <2>2. \A w, v \in S : f[w] = f[v] => w = v
    BY <1>3 DEF Whole
  <2> QED
    BY <2>1, <2>2 DEF Injection, IsInjective
<1>5. f \in Surjection(S, 0 .. b - 1)
  BY <1>3, <1>4 DEF Whole, Injection, Surjection
<1>6. IsFiniteSet(S) /\ Cardinality(S) = b
  BY <1>2, <1>4, <1>5, FS_Injection
<1>7. {w.order : w \in S} = 0 .. b - 1
  BY DEF Whole
<1>8. {w.type : w \in S} = {Types[i] : i \in 1 .. b}
  <2>1. \A w \in S : \E i \in 1 .. b : w.type = Types[i]
    BY DEF Whole
  <2>2. \A i \in 1 .. b : \E w \in S : w.type = Types[i]
    BY DEF Whole
  <2> QED
    BY <2>1, <2>2
<1> QED
  BY <1>2, <1>6, <1>7, <1>8

LEMMA LayoutStays == WlInv => WL!LayoutIsWhole
<1> SUFFICES ASSUME WlInv PROVE WL!LayoutIsWhole
  OBVIOUS
<1>1. build \in 1 .. Len(Types) /\ build \in Nat /\ Whole(widgets, build)
  BY WlConstants DEF WlInv, WL!TypeOK
<1>2. /\ Cardinality(widgets) = build /\ {w.order : w \in widgets} = 0 .. build - 1
      /\ Cardinality(0 .. build - 1) = build /\ {w.type : w \in widgets} = {Types[i] : i \in 1 .. build}
  BY <1>1, WholeHasAll
<1>3. WL!Range(SubSeq(Types, 1, build)) = {Types[i] : i \in 1 .. build}
  <2>1. PICK s : s = SubSeq(Types, 1, build)
    OBVIOUS
  <2>2. DOMAIN s = 1 .. build /\ \A i \in 1 .. build : s[i] = Types[i]
    BY <1>1, <2>1, WlConstants
  <2> QED
    BY <2>1, <2>2 DEF WL!Range
<1> QED
  BY <1>2, <1>3, WlConstants DEF WlInv, WL!LayoutIsWhole, WL!TypesOf

(* The defaults of the first n widgets, from the one after b on.            *)
From(b, n) == {[type |-> Types[i], enabled |-> TRUE, order |-> i - 1] : i \in b + 1 .. n}

AreInOrder(F, b, n) ==
    /\ F \subseteq WL!Widget
    /\ \A w \in F : w.order \in b .. n - 1 /\ w.type = Types[w.order + 1] /\ w.enabled = TRUE
    /\ \A i \in b + 1 .. n : \E w \in F : w.type = Types[i] /\ w.order = i - 1
    /\ \A w, v \in F : w.order = v.order => w = v

LEMMA FromAre ==
  ASSUME NEW n \in 1 .. Len(Types), NEW b \in 0 .. n, NEW F, F = From(b, n)
  PROVE  AreInOrder(F, b, n)
<1>1. n \in Nat /\ b \in Nat /\ n <= Len(Types) /\ Len(Types) \in Nat /\ b <= n
  BY WlConstants
<1>2. ASSUME NEW i \in b + 1 .. n
      PROVE  /\ [type |-> Types[i], enabled |-> TRUE, order |-> i - 1] \in WL!Widget
             /\ i - 1 \in b .. n - 1 /\ (i - 1) + 1 = i
  <2>1. i \in 1 .. Len(Types) /\ i - 1 \in 0 .. Len(Types) - 1 /\ i - 1 \in b .. n - 1 /\ (i - 1) + 1 = i
    BY <1>1
  <2>2. Types[i] \in WL!Range(Types)
    BY <2>1, WlConstants
  <2> QED
    BY <2>1, <2>2 DEF WL!Widget
<1> DEFINE nth(i) == [type |-> Types[i], enabled |-> TRUE, order |-> i - 1]
<1>3. F = {nth(i) : i \in b + 1 .. n}
  BY DEF From
<1>4. \A i \in b + 1 .. n : /\ nth(i) \in WL!Widget /\ nth(i).type = Types[i] /\ nth(i).enabled = TRUE
                            /\ nth(i).order = i - 1 /\ i \in Int
  BY <1>1, <1>2
<1> HIDE DEF nth
<1>5. F \subseteq WL!Widget
  BY <1>3, <1>4
<1>6. \A i \in b + 1 .. n : \E w \in F : w.type = Types[i] /\ w.order = i - 1
  BY <1>3, <1>4
<1>7. \A w \in F : w.order \in b .. n - 1 /\ w.type = Types[w.order + 1] /\ w.enabled = TRUE
  <2> SUFFICES ASSUME NEW i \in b + 1 .. n
               PROVE  nth(i).order \in b .. n - 1 /\ nth(i).type = Types[nth(i).order + 1]
    BY <1>3, <1>4
  <2> QED
    BY <1>2, <1>4
<1>8. \A w, v \in F : w.order = v.order => w = v
  <2> SUFFICES ASSUME NEW i \in b + 1 .. n, NEW j \in b + 1 .. n, nth(i).order = nth(j).order
               PROVE  i = j
    BY <1>3
  <2> QED
    BY <1>4
<1> QED
  BY <1>5, <1>6, <1>7, <1>8 DEF AreInOrder

LEMMA DefaultsAreWhole ==
  ASSUME NEW n \in 1 .. Len(Types)
  PROVE  Whole(From(0, n), n)
<1>1. n \in Nat /\ n <= Len(Types) /\ Len(Types) \in Nat /\ 0 \in 0 .. n
  BY WlConstants
<1>2. PICK S, z : z = 0 /\ S = From(z, n)
  OBVIOUS
<1>3. /\ S \subseteq WL!Widget
      /\ \A w \in S : w.order \in 0 .. n - 1 /\ w.type = Types[w.order + 1] /\ w.enabled = TRUE
      /\ \A i \in 1 .. n : \E w \in S : w.type = Types[i] /\ w.order = i - 1
      /\ \A w, v \in S : w.order = v.order => w = v
  <2>1. z \in 0 .. n /\ z + 1 = 1
    BY <1>1, <1>2
  <2>2. /\ S \subseteq WL!Widget
        /\ \A w \in S : w.order \in z .. n - 1 /\ w.type = Types[w.order + 1] /\ w.enabled = TRUE
        /\ \A i \in z + 1 .. n : \E w \in S : w.type = Types[i] /\ w.order = i - 1
        /\ \A w, v \in S : w.order = v.order => w = v
    <3>1. AreInOrder(S, z, n)
      BY <1>2, <2>1, FromAre
    <3> QED
      BY <3>1 DEF AreInOrder
  <2> QED
    BY <1>2, <2>1, <2>2
<1>4. \A k \in 0 .. n - 1 : \E w \in S : w.order = k
  <2> SUFFICES ASSUME NEW k \in 0 .. n - 1 PROVE \E w \in S : w.order = k
    OBVIOUS
  <2>1. k + 1 \in 1 .. n /\ (k + 1) - 1 = k
    BY <1>1
  <2> QED
    BY <1>3, <2>1
<1>5. \A w \in S : w.order + 1 \in 1 .. n
  BY <1>1, <1>3
<1>6. \A w, v \in S : w.order = v.order => w = v
  BY <1>3
<1>7. \A w, v \in S : w.type = v.type => w.order = v.order
  <2> SUFFICES ASSUME NEW w \in S, NEW v \in S, w.type = v.type PROVE w.order = v.order
    OBVIOUS
  <2>1. w.order + 1 \in 1 .. Len(Types) /\ v.order + 1 \in 1 .. Len(Types) /\ w.order \in Nat /\ v.order \in Nat
    BY <1>1, <1>3
  <2>2. w.order + 1 = v.order + 1
    BY <1>3, <2>1, WlConstants
  <2> QED
    BY <2>1, <2>2
<1> QED
  BY <1>2, <1>3, <1>4, <1>5, <1>6, <1>7 DEF Whole

(* The stored layout, completed.                                            *)
LEMMA CompletedIsWhole ==
  ASSUME NEW n \in 1 .. Len(Types), NEW b \in 1 .. n, NEW S, Whole(S, b)
  PROVE  /\ Whole(S \cup From(b, n), n)
         /\ \A w \in From(b, n), v \in S : v.order < w.order
<1>1. n \in Nat /\ b \in Nat /\ n <= Len(Types) /\ Len(Types) \in Nat /\ b <= n /\ b >= 1 /\ b \in 0 .. n
  BY WlConstants
<1>2. PICK F : F = From(b, n)
  OBVIOUS
<1>3. /\ F \subseteq WL!Widget
      /\ \A w \in F : w.order \in b .. n - 1 /\ w.type = Types[w.order + 1] /\ w.enabled = TRUE
      /\ \A i \in b + 1 .. n : \E w \in F : w.type = Types[i] /\ w.order = i - 1
      /\ \A w, v \in F : w.order = v.order => w = v
  <2>1. AreInOrder(F, b, n)
    BY <1>1, <1>2, FromAre
  <2> QED
    BY <2>1 DEF AreInOrder
<1>4. \A w \in S \cup F : w.order \in 0 .. n - 1
  BY <1>1, <1>3 DEF Whole
<1>5. \A w \in F, v \in S : v.order < w.order
  BY <1>1, <1>3 DEF Whole
<1>6. \A w \in F, v \in S : v.type # w.type /\ v.order # w.order
  <2> SUFFICES ASSUME NEW w \in F, NEW v \in S PROVE v.type # w.type /\ v.order # w.order
    OBVIOUS
  <2>1. PICK i \in 1 .. b : v.type = Types[i]
    BY DEF Whole
  <2>2. w.order + 1 \in 1 .. Len(Types) /\ i \in 1 .. Len(Types) /\ i # w.order + 1 /\ w.type = Types[w.order + 1]
    BY <1>1, <1>3
  <2>3. v.type # w.type
    BY <2>1, <2>2, WlConstants
  <2>4. v.order < w.order /\ v.order \in Int /\ w.order \in Int
    BY <1>4, <1>5
  <2> QED
    BY <2>3, <2>4
<1>7. \A w, v \in F : w.order = v.order => w = v
  BY <1>3
<1>8. \A w, v \in F : w.type = v.type => w.order = v.order
  <2> SUFFICES ASSUME NEW w \in F, NEW v \in F, w.type = v.type PROVE w.order = v.order
    OBVIOUS
  <2>1. w.order + 1 \in 1 .. Len(Types) /\ v.order + 1 \in 1 .. Len(Types) /\ w.order \in Nat /\ v.order \in Nat
    BY <1>1, <1>3
  <2>2. w.order + 1 = v.order + 1
    BY <1>3, <2>1, WlConstants
  <2> QED
    BY <2>1, <2>2
<1>9. \A i \in 1 .. n : \E w \in S \cup F : w.type = Types[i]
  <2> SUFFICES ASSUME NEW i \in 1 .. n PROVE \E w \in S \cup F : w.type = Types[i]
    OBVIOUS
  <2>1. i \in 1 .. b \/ i \in b + 1 .. n
    BY <1>1
  <2> QED
    BY <1>3, <2>1 DEF Whole
<1>10. \A k \in 0 .. n - 1 : \E w \in S \cup F : w.order = k
  <2> SUFFICES ASSUME NEW k \in 0 .. n - 1 PROVE \E w \in S \cup F : w.order = k
    OBVIOUS
  <2>1. CASE k \in 0 .. b - 1
    BY <2>1 DEF Whole
  <2>2. CASE ~(k \in 0 .. b - 1)
    <3>1. k + 1 \in b + 1 .. n /\ (k + 1) - 1 = k
      BY <1>1, <2>2
    <3>2. PICK w \in F : w.order = (k + 1) - 1
      BY <1>3, <3>1
    <3> QED
      BY <3>1, <3>2
  <2> QED
    BY <2>1, <2>2
<1>11. \A w \in S \cup F : \E i \in 1 .. n : w.type = Types[i]
  <2>1. \A w \in F : w.order + 1 \in 1 .. n
    BY <1>1, <1>3
  <2>2. 1 .. b \subseteq 1 .. n
    BY <1>1
  <2> QED
    BY <1>3, <2>1, <2>2 DEF Whole
<1>12. S \cup F \subseteq WL!Widget
  BY <1>3 DEF Whole
<1>13. \A w, v \in S \cup F : w.type = v.type \/ w.order = v.order => w = v
  BY <1>6, <1>7, <1>8 DEF Whole
<1> QED
  BY <1>2, <1>4, <1>5, <1>9, <1>10, <1>11, <1>12, <1>13 DEF Whole

(* What the page loads, of a stored layout S.                               *)
NewFor(n, S) ==
    LET new(i) == {j \in 1 .. i : Types[j] \notin WL!TypesOf(S)}
        maxOrder == WL!Max({w.order : w \in S})
    IN  {[type |-> Types[i], enabled |-> TRUE, order |-> maxOrder + WL!Cardinality(new(i))] : i \in new(n)}

LoadedFor(n, S) == IF S = {} THEN From(0, n) ELSE S \cup NewFor(n, S)

LEMMA LoadsAre ==
  /\ WL!loadWidgetLayout = LoadedFor(build, wlStored)
  /\ WL!loadWidgetLayout' = LoadedFor(build', wlStored')
  /\ WL!DEFAULT_WIDGETS = From(0, build)
<1>1. 0 + 1 = 1
  OBVIOUS
<1>2. WL!DEFAULT_WIDGETS = From(0, build) /\ WL!DEFAULT_WIDGETS' = From(0, build')
  BY <1>1 DEF WL!DEFAULT_WIDGETS, From
<1>3. WL!newWidgets = NewFor(build, wlStored) /\ WL!newWidgets' = NewFor(build', wlStored')
  BY DEF WL!newWidgets, NewFor, WL!TypesOf
<1> QED
  BY <1>2, <1>3 DEF WL!loadWidgetLayout, LoadedFor

LEMMA NewAreTheLast ==
  ASSUME NEW n \in 1 .. Len(Types), NEW b \in 1 .. n, NEW S, Whole(S, b)
  PROVE  NewFor(n, S) = From(b, n)
<1> DEFINE new(i) == {j \in 1 .. i : Types[j] \notin WL!TypesOf(S)}
<1>1. n \in Nat /\ b \in Nat /\ n <= Len(Types) /\ Len(Types) \in Nat /\ b <= n /\ b >= 1 /\ b \in 1 .. Len(Types)
  BY WlConstants
<1>2. WL!TypesOf(S) = {Types[i] : i \in 1 .. b} /\ {w.order : w \in S} = 0 .. b - 1
  BY <1>1, WholeHasAll DEF WL!TypesOf
<1>3. ASSUME NEW i \in 1 .. n PROVE new(i) = b + 1 .. i
  <2>1. ASSUME NEW j \in 1 .. i PROVE Types[j] \in WL!TypesOf(S) <=> j <= b
    <3>1. j \in 1 .. Len(Types) /\ \A k \in 1 .. b : k \in 1 .. Len(Types)
      BY <1>1
    <3>2. Types[j] \in WL!TypesOf(S) <=> j \in 1 .. b
      BY <1>2, <3>1, WlConstants
    <3> QED
      BY <1>1, <3>2
  <2>2. \A j \in 1 .. i : j \in new(i) <=> ~(j <= b)
    BY <2>1
  <2> QED
    BY <1>1, <2>2
<1>4. WL!Max({w.order : w \in S}) = b - 1
  <2>1. b - 1 \in 0 .. b - 1 /\ \A x \in 0 .. b - 1 : b - 1 >= x /\ x \in Int
    BY <1>1
  <2>2. \A x \in 0 .. b - 1 : x >= b - 1 => x = b - 1
    BY <1>1
  <2> QED
    BY <1>2, <2>1, <2>2 DEF WL!Max
<1>5. ASSUME NEW i \in b + 1 .. n PROVE (b - 1) + WL!Cardinality(new(i)) = i - 1
  <2>1. i \in 1 .. n /\ i \in Nat /\ ~(b + 1 > i)
    BY <1>1
  <2>2. b + 1 \in Int /\ i \in Int
    BY <1>1, <2>1
  <2>3. Cardinality(b + 1 .. i) = i - (b + 1) + 1
    BY <2>1, <2>2, FS_Interval
  <2>4. WL!Cardinality(new(i)) = i - (b + 1) + 1
    BY <1>3, <2>1, <2>3, WlConstants
  <2> QED
    BY <1>1, <2>1, <2>4
<1>6. n \in 1 .. n
  BY <1>1
<1>7. NewFor(n, S) = {[type |-> Types[i], enabled |-> TRUE, order |-> (b - 1) + WL!Cardinality(new(i))] : i \in new(n)}
  BY <1>4 DEF NewFor
<1>8. NewFor(n, S) = {[type |-> Types[i], enabled |-> TRUE, order |-> (b - 1) + WL!Cardinality(new(i))] : i \in b + 1 .. n}
  BY <1>3, <1>6, <1>7
<1> HIDE DEF new
<1> QED
  BY <1>5, <1>8 DEF From

LEMMA LoadedIsWhole ==
  ASSUME NEW n \in 1 .. Len(Types), NEW S, S # {} => \E b \in 1 .. n : Whole(S, b)
  PROVE  /\ Whole(LoadedFor(n, S), n) /\ S \subseteq LoadedFor(n, S)
         /\ S # {} => \A w \in LoadedFor(n, S) \ S, v \in S : v.order < w.order
<1>1. CASE S = {}
  BY <1>1, DefaultsAreWhole DEF LoadedFor
<1>2. CASE S # {}
  <2>1. PICK b \in 1 .. n : Whole(S, b)
    BY <1>2
  <2>2. LoadedFor(n, S) = S \cup From(b, n)
    BY <1>2, <2>1, NewAreTheLast DEF LoadedFor
  <2>3. Whole(S \cup From(b, n), n) /\ \A w \in From(b, n), v \in S : v.order < w.order
    BY <2>1, CompletedIsWhole
  <2> QED
    BY <2>2, <2>3
<1> QED
  BY <1>1, <1>2

LEMMA WlStarts == WL!Init => WlInv
<1> SUFFICES ASSUME WL!Init PROVE WlInv
  OBVIOUS
<1>1. build \in 1 .. MaxBuilds /\ wlStored = {} /\ widgets = From(0, build)
  BY LoadsAre DEF WL!Init
<1>2. build \in 1 .. Len(Types)
  BY <1>1, WlConstants
<1>3. Whole(widgets, build)
  BY <1>1, <1>2, DefaultsAreWhole
<1> QED
  BY <1>1, <1>3 DEF WlInv, WL!TypeOK, Whole

(* The page is loaded.                                                      *)
LEMMA WlLoads ==
  ASSUME WlInv, build' \in build .. MaxBuilds, wlStored' = wlStored, widgets' = LoadedFor(build', wlStored')
  PROVE  WlInv'
<1>1. build \in 1 .. MaxBuilds /\ MaxBuilds \in Nat /\ MaxBuilds <= Len(Types) /\ Len(Types) \in Nat
  BY WlConstants DEF WlInv, WL!TypeOK
<1>2. build' \in 1 .. MaxBuilds /\ build' \in 1 .. Len(Types)
  BY <1>1
<1>3. wlStored' # {} => \E b \in 1 .. build' : Whole(wlStored', b)
  <2>1. 1 .. build \subseteq 1 .. build'
    BY <1>1, <1>2
  <2> QED
    BY <2>1 DEF WlInv
<1>4. PICK n, S : n = build' /\ S = wlStored'
  OBVIOUS
<1>5. /\ Whole(LoadedFor(n, S), n) /\ S \subseteq LoadedFor(n, S)
      /\ S # {} => \A w \in LoadedFor(n, S) \ S, v \in S : v.order < w.order
  BY <1>2, <1>3, <1>4, LoadedIsWhole
<1>6. Whole(widgets, build)'
  BY <1>4, <1>5 DEF Whole
<1>7. WL!TypeOK'
  BY <1>2, <1>6 DEF WlInv, WL!TypeOK, Whole
<1> QED
  BY <1>3, <1>4, <1>5, <1>6, <1>7 DEF WlInv, Whole

(* The user changes the layout.                                             *)
LEMMA WlSets ==
  ASSUME WlInv, NEW next, WL!Set(next), Whole(next, build)
  PROVE  WlInv'
<1>1. widgets' = next /\ wlStored' = next /\ build' = build
  BY DEF WL!Set
<1>2. build \in 1 .. build /\ build \in 1 .. MaxBuilds
  BY WlConstants DEF WlInv, WL!TypeOK
<1>3. next \subseteq WL!Widget
  BY DEF Whole
<1>4. Whole(widgets, build)' /\ Whole(wlStored', build')
  BY <1>1 DEF Whole
<1> QED
  BY <1>1, <1>2, <1>3, <1>4 DEF WlInv, WL!TypeOK, Whole

LEMMA WlKept ==
  ASSUME WlInv, [WL!Next]_(WL!vars)
  PROVE  WlInv'
<1>1. /\ build \in 1 .. MaxBuilds /\ MaxBuilds \in Nat /\ MaxBuilds <= Len(Types) /\ Len(Types) \in Nat
      /\ build \in 1 .. Len(Types) /\ Whole(widgets, build) /\ WL!TypeOK
  BY WlConstants DEF WlInv, WL!TypeOK
<1>2. ASSUME WL!Mount PROVE WlInv'
  <2>1. build' = build /\ wlStored' = wlStored /\ widgets' = LoadedFor(build, wlStored)
    BY <1>2, LoadsAre DEF WL!Mount
  <2>2. build' \in build .. MaxBuilds /\ widgets' = LoadedFor(build', wlStored')
    BY <1>1, <2>1
  <2> QED
    BY <2>1, <2>2, WlLoads
<1>3. ASSUME WL!Upgrade PROVE WlInv'
  <2>1. build' = build + 1 /\ build < MaxBuilds /\ wlStored' = wlStored /\ widgets' = LoadedFor(build', wlStored')
    BY <1>3, LoadsAre DEF WL!Upgrade
  <2>2. build' \in build .. MaxBuilds
    BY <1>1, <2>1
  <2> QED
    BY <2>1, <2>2, WlLoads
<1>4. ASSUME NEW w \in widgets, WL!toggleWidget(w) PROVE WlInv'
  <2>1. PICK u : u = [w EXCEPT !.enabled = ~@]
    OBVIOUS
  <2>2. w \in WL!Widget
    BY <1>1 DEF WL!TypeOK
  <2>3. u \in WL!Widget /\ u.type = w.type /\ u.order = w.order
    BY <2>1, <2>2 DEF WL!Widget
  <2>4. PICK next : next = (widgets \ {w}) \cup {u}
    OBVIOUS
  <2>5. next \subseteq WL!Widget
    BY <1>1, <2>3, <2>4 DEF Whole
  <2>6. \A i \in 1 .. build : \E x \in next : x.type = Types[i]
    BY <1>1, <2>3, <2>4 DEF Whole
  <2>7. \A k \in 0 .. build - 1 : \E x \in next : x.order = k
    BY <1>1, <2>3, <2>4 DEF Whole
  <2>8. \A x \in next : x.order \in 0 .. build - 1 /\ \E i \in 1 .. build : x.type = Types[i]
    BY <1>1, <2>3, <2>4 DEF Whole
  <2>9. \A t, x \in next : t.type = x.type \/ t.order = x.order => t = x
    BY <1>1, <2>3, <2>4 DEF Whole
  <2>10. Whole(next, build)
    BY <2>5, <2>6, <2>7, <2>8, <2>9 DEF Whole
  <2> QED
    BY <1>4, <2>1, <2>4, <2>10, WlSets DEF WL!toggleWidget
<1>5. ASSUME NEW w \in widgets, NEW v \in widgets, WL!moveWidget(w, v) PROVE WlInv'
  <2>1. PICK x, y : x = [w EXCEPT !.order = v.order] /\ y = [v EXCEPT !.order = w.order]
    OBVIOUS
  <2>2. w \in WL!Widget /\ v \in WL!Widget /\ w.order < v.order /\ w.order \in Int /\ v.order \in Int
    BY <1>1, <1>5 DEF WL!TypeOK, WL!moveWidget, WL!Widget
  <2>3. /\ x \in WL!Widget /\ x.type = w.type /\ x.order = v.order
        /\ y \in WL!Widget /\ y.type = v.type /\ y.order = w.order
    BY <2>1, <2>2 DEF WL!Widget
  <2>4. w # v /\ w.order # v.order /\ w.type # v.type
    BY <1>1, <2>2 DEF Whole
  <2>5. PICK next : next = (widgets \ {w, v}) \cup {x, y}
    OBVIOUS
  <2>6. next \subseteq WL!Widget
    BY <1>1, <2>3, <2>5 DEF Whole
  <2>7. \A i \in 1 .. build : \E u \in next : u.type = Types[i]
    BY <1>1, <2>3, <2>5 DEF Whole
  <2>8. \A k \in 0 .. build - 1 : \E u \in next : u.order = k
    BY <1>1, <2>3, <2>5 DEF Whole
  <2>9. \A u \in next : u.order \in 0 .. build - 1 /\ \E i \in 1 .. build : u.type = Types[i]
    BY <1>1, <2>3, <2>5 DEF Whole
  <2>10. \A t, u \in next : t.type = u.type \/ t.order = u.order => t = u
    BY <1>1, <2>3, <2>4, <2>5 DEF Whole
  <2>11. Whole(next, build)
    BY <2>6, <2>7, <2>8, <2>9, <2>10 DEF Whole
  <2> QED
    BY <1>5, <2>1, <2>5, <2>11, WlSets DEF WL!moveWidget
<1>6. ASSUME WL!ResetToDefaults PROVE WlInv'
  BY <1>1, <1>6, DefaultsAreWhole, LoadsAre, WlSets DEF WL!ResetToDefaults
<1>7. ASSUME UNCHANGED WL!vars PROVE WlInv'
  <2>1. widgets' = widgets /\ build' = build /\ wlStored' = wlStored
    BY <1>7 DEF WL!vars
  <2> QED
    BY <2>1 DEF WlInv, WL!TypeOK, Whole
<1> QED
  BY <1>2, <1>3, <1>4, <1>5, <1>6, <1>7 DEF WL!Next
=============================================================================
