-------------------------- MODULE CollectorProofs --------------------------
(***************************************************************************)
(* Proofs about Collector, for any watches, contents, conditions,           *)
(* directories, pauses, deaths and refused events: the events of a watch    *)
(* form a chain; each reports what the file contained since the watch was   *)
(* last resumed, and of a debounced watch what two samples agree on; and    *)
(* no change of a followed watch waits for the interval.                    *)
(***************************************************************************)
EXTENDS Collector, TLAPS, FiniteSetTheorems, WellFoundedInduction

-----------------------------------------------------------------------------
(* The inductive invariant.                                                *)

Event == [previous : Content, current : Content]

DurableOK ==
    /\ row \in [Watch -> [mode : Mode, epoch : Nat, checkpoint : Samples]]
    /\ reported \in [Watch -> Seq(Event)]
    /\ file \in [Watch -> Content]

\* A job that has read has a sample: a condition without a result ends it.
JobOK(j) ==
    /\ DOMAIN j = {"at", "sample", "ripe", "copy"}
    /\ j.at = "read" => j.sample \in Content
JobsOK == DOMAIN job = Watch /\ \A w \in Watch : JobOK(job[w])

IInv == DurableOK /\ JobsOK /\ EventsFormChain

-----------------------------------------------------------------------------
(* Jobs.                                                                   *)

LEMMA NoneIsNoSample == None \notin Content
  BY CollectorConstants

LEMMA NoJobIsOK == JobOK(NoJob) /\ \A copy : JobOK([NoJob EXCEPT !.at = "done", !.copy = copy])
  BY DEF NoJob, JobOK

\* A turn of the dispatcher begins jobs; it leaves the others as they are.
LEMMA TurnKeepsJobs ==
    ASSUME NEW runtimes, NEW jobs, \A w \in Watch : JobOK(jobs[w]), Turn(runtimes, jobs)
    PROVE  JobsOK'
<1> DEFINE swept == [w \in Watch |-> IF overflow /\ runtimes[w].active
                                     THEN [runtimes[w] EXCEPT !.dirty = TRUE] ELSE runtimes[w]]
           begun(some) == [w \in Watch |-> IF w \in some
                                           THEN [swept[w] EXCEPT !.dirty = FALSE] ELSE swept[w]]
           start(some, w) == [at |-> "reading", sample |-> None,
                              ripe |-> begun(some)[w].candidate.ripe, copy |-> begun(some)[w]]
<1>1. PICK some : job' = [w \in Watch |-> IF w \in some THEN start(some, w) ELSE jobs[w]]
  BY Zenon DEF Turn
<1>2. \A w : JobOK(start(some, w))
  BY DEF JobOK
<1> HIDE DEF start
<1> QED BY <1>1, <1>2 DEF JobsOK

\* A dispatcher's branch writes neither the rows nor the events.
LEMMA DispatcherKeeps ==
    ASSUME IInv, Dispatcher \/ \E w \in Watch : Finish(w)
    PROVE  IInv'
<1> USE DEF IInv
<1>1. UNCHANGED <<row, reported, file>>
  BY DEF Dispatcher, Reload, Receive, Timer, Finish, durable, outside
<1>2. \E runtimes : \E jobs : Turn(runtimes, jobs) /\ \A w \in Watch : JobOK(jobs[w])
  <2>1. ASSUME NEW runtimes, Turn(runtimes, job)
        PROVE  \E r : \E jobs : Turn(r, jobs) /\ \A w \in Watch : JobOK(jobs[w])
    BY <2>1 DEF JobsOK
  <2>2. CASE Reload
    BY <2>1, <2>2 DEF Reload
  <2>3. CASE Receive \/ Timer
    BY <2>1, <2>3 DEF Receive, Timer
  <2>4. ASSUME NEW w \in Watch, Finish(w)
        PROVE  \E r : \E jobs : Turn(r, jobs) /\ \A v \in Watch : JobOK(jobs[v])
    <3> DEFINE joined == [job EXCEPT ![w] = NoJob]
    <3>1. \E r : Turn(r, joined)
      BY <2>4 DEF Finish
    <3>2. \A v \in Watch : JobOK(joined[v])
      BY NoJobIsOK DEF JobsOK
    <3> QED BY <3>1, <3>2
  <2> QED BY <2>2, <2>3, <2>4 DEF Dispatcher
<1>3. JobsOK'
  BY <1>2, TurnKeepsJobs
<1> QED BY <1>1, <1>3 DEF DurableOK, EventsFormChain

-----------------------------------------------------------------------------
(* The chain.                                                              *)

\* A chain of events that ends at the checkpoint of its watch.
Chain(events, checkpoint) ==
    /\ \A n \in 1..Len(events) : events[n].previous # events[n].current
    /\ \A n \in 2..Len(events) : events[n].previous = events[n - 1].current
    /\ events # <<>> => checkpoint = events[Len(events)].current

LEMMA ChainEach == EventsFormChain <=> \A w \in Watch : Chain(reported[w], row[w].checkpoint)
  BY DEF EventsFormChain, Chain

\* An event that begins at the checkpoint continues the chain.
LEMMA ChainGrows ==
    ASSUME NEW events \in Seq(Event), NEW checkpoint \in Samples, NEW sample \in Content,
           Chain(events, checkpoint), checkpoint \notin {None, sample}
    PROVE  LET e == [previous |-> checkpoint, current |-> sample] IN
           Append(events, e) \in Seq(Event) /\ Chain(Append(events, e), sample)
<1> DEFINE e == [previous |-> checkpoint, current |-> sample]
           grown == Append(events, e)
<1>1. e \in Event /\ e.previous = checkpoint /\ e.current = sample
  BY DEF Event, Samples
<1> HIDE DEF e
<1>2. /\ grown \in Seq(Event) /\ Len(events) \in Nat /\ Len(grown) = Len(events) + 1
      /\ \A n \in 1..Len(events) : grown[n] = events[n]
      /\ grown[Len(events) + 1] = e
  BY <1>1
<1> HIDE DEF grown
<1>3. \A n \in 1..Len(grown) : grown[n].previous # grown[n].current
  <2> SUFFICES ASSUME NEW n \in 1..Len(grown) PROVE grown[n].previous # grown[n].current
    OBVIOUS
  <2>1. CASE n \in 1..Len(events)
    BY <1>2, <2>1 DEF Chain
  <2>2. CASE n = Len(events) + 1
    BY <1>1, <1>2, <2>2
  <2> QED BY <1>2, <2>1, <2>2
<1>4. \A n \in 2..Len(grown) : grown[n].previous = grown[n - 1].current
  <2> SUFFICES ASSUME NEW n \in 2..Len(grown)
               PROVE  grown[n].previous = grown[n - 1].current
    OBVIOUS
  <2>1. CASE n \in 2..Len(events)
    <3>1. n \in 1..Len(events) /\ n - 1 \in 1..Len(events)
      BY <1>2, <2>1
    <3> QED BY <1>2, <2>1, <3>1 DEF Chain
  <2>2. CASE n = Len(events) + 1
    <3>1. n - 1 = Len(events) /\ n - 1 \in 1..Len(events) /\ events # <<>>
      BY <1>2, <2>2
    <3> QED BY <1>1, <1>2, <2>2, <3>1 DEF Chain
  <2> QED BY <1>2, <2>1, <2>2
<1>5. grown # <<>> => sample = grown[Len(grown)].current
  BY <1>1, <1>2
<1> QED BY <1>2, <1>3, <1>4, <1>5 DEF Chain, e, grown

\* A checkpoint is set for the first time before anything was reported.
LEMMA FirstCheckpoint ==
    ASSUME NEW events \in Seq(Event), NEW checkpoint, Chain(events, checkpoint), checkpoint = None
    PROVE  \A sample : Chain(events, sample)
<1>1. events = <<>>
  <2> SUFFICES ASSUME events # <<>> PROVE FALSE
    OBVIOUS
  <2>1. Len(events) \in 1..Len(events)
    OBVIOUS
  <2>2. events[Len(events)] \in Event
    BY <2>1
  <2> QED BY <2>2, NoneIsNoSample DEF Chain, Event
<1> QED BY <1>1 DEF Chain

LEMMA StoreKeeps ==
    ASSUME IInv, NEW w \in Watch, NEW accepted, Store(w, accepted)
    PROVE  IInv'
<1> USE DEF IInv
<1> DEFINE sample == job[w].sample
           checkpoint == row[w].checkpoint
<1>1. sample \in Content /\ file' = file
  BY DEF Store, JobsOK, JobOK, outside
<1>2. checkpoint \in Samples /\ reported[w] \in Seq(Event) /\ Chain(reported[w], checkpoint)
  BY ChainEach DEF DurableOK
<1>3. \E copy : Done(w, copy)
  BY DEF Store
<1>4. JobsOK'
  <2>1. PICK copy : job' = [job EXCEPT ![w] = [NoJob EXCEPT !.at = "done", !.copy = copy]]
    BY <1>3 DEF Done
  <2>2. JobOK([NoJob EXCEPT !.at = "done", !.copy = copy])
    BY NoJobIsOK
  <2> QED BY <2>1, <2>2 DEF JobsOK
<1>5. \/ UNCHANGED <<row, reported>>
      \/ /\ checkpoint = None /\ row' = [row EXCEPT ![w].checkpoint = sample]
         /\ UNCHANGED reported
      \/ /\ checkpoint \notin {None, sample}
         /\ row' = [row EXCEPT ![w].checkpoint = sample]
         /\ reported' = [reported EXCEPT ![w] =
                Append(@, [previous |-> checkpoint, current |-> sample])]
  BY DEF Store, Commit, durable
<1>6. CASE UNCHANGED <<row, reported>>
  BY <1>1, <1>4, <1>6 DEF DurableOK, EventsFormChain
<1>7. CASE /\ checkpoint = None /\ row' = [row EXCEPT ![w].checkpoint = sample]
           /\ UNCHANGED reported
  <2>1. row' \in [Watch -> [mode : Mode, epoch : Nat, checkpoint : Samples]]
        /\ row'[w].checkpoint = sample /\ \A v \in Watch \ {w} : row'[v] = row[v]
    BY <1>1, <1>7 DEF DurableOK, Samples
  <2>2. Chain(reported[w], sample)
    BY <1>2, <1>7, FirstCheckpoint
  <2>3. \A v \in Watch : Chain(reported'[v], row'[v].checkpoint)
    BY <1>7, <2>1, <2>2, ChainEach
  <2> QED BY <1>1, <1>4, <1>7, <2>1, <2>3 DEF DurableOK, EventsFormChain, Chain
<1>8. CASE /\ checkpoint \notin {None, sample}
           /\ row' = [row EXCEPT ![w].checkpoint = sample]
           /\ reported' = [reported EXCEPT ![w] =
                  Append(@, [previous |-> checkpoint, current |-> sample])]
  <2> DEFINE grown == Append(reported[w], [previous |-> checkpoint, current |-> sample])
  <2>1. row' \in [Watch -> [mode : Mode, epoch : Nat, checkpoint : Samples]]
        /\ row'[w].checkpoint = sample /\ \A v \in Watch \ {w} : row'[v] = row[v]
    BY <1>1, <1>8 DEF DurableOK, Samples
  <2>2. grown \in Seq(Event) /\ Chain(grown, sample)
    BY <1>1, <1>2, <1>8, ChainGrows
  <2>3. reported' = [reported EXCEPT ![w] = grown]
    BY <1>8
  <2> HIDE DEF grown
  <2>4. reported' \in [Watch -> Seq(Event)] /\ reported'[w] = grown
        /\ \A v \in Watch \ {w} : reported'[v] = reported[v]
    BY <2>2, <2>3 DEF DurableOK
  <2>5. \A v \in Watch : Chain(reported'[v], row'[v].checkpoint)
    BY <2>1, <2>2, <2>4, ChainEach
  <2> QED BY <1>1, <1>4, <2>1, <2>4, <2>5 DEF DurableOK, EventsFormChain, Chain
<1> QED BY <1>5, <1>6, <1>7, <1>8

-----------------------------------------------------------------------------
(* The theorem.                                                            *)

LEMMA CommandKeeps ==
    ASSUME IInv, NEW w \in Watch, watch_create(w) \/ \E mode \in Mode : watch_action(w, mode)
    PROVE  IInv'
<1> USE DEF IInv
<1>1. /\ UNCHANGED <<reported, job, file>>
      /\ \E r : row' = [row EXCEPT ![w] = r] /\ r \in [mode : Mode, epoch : Nat, checkpoint : Samples]
                /\ r.checkpoint = row[w].checkpoint
  <2>1. row[w] \in [mode : Mode, epoch : Nat, checkpoint : Samples]
    BY DEF DurableOK
  <2>2. CASE watch_create(w)
    <3>1. row' = [row EXCEPT ![w].mode = "enabled"] /\ UNCHANGED <<reported, job, file>>
      BY <2>2 DEF watch_create, memory, outside
    <3> DEFINE r == [row[w] EXCEPT !.mode = "enabled"]
    <3>2. r \in [mode : Mode, epoch : Nat, checkpoint : Samples]
          /\ r.checkpoint = row[w].checkpoint
      BY <2>1 DEF Mode
    <3>3. row' = [row EXCEPT ![w] = r]
      BY <3>1
    <3> QED BY <3>1, <3>2, <3>3
  <2>3. ASSUME NEW mode \in Mode, watch_action(w, mode)
        PROVE  /\ UNCHANGED <<reported, job, file>>
               /\ \E r : /\ row' = [row EXCEPT ![w] = r]
                         /\ r \in [mode : Mode, epoch : Nat, checkpoint : Samples]
                         /\ r.checkpoint = row[w].checkpoint
    <3>1. row' = [row EXCEPT ![w].mode = mode, ![w].epoch = @ + 1]
          /\ UNCHANGED <<reported, job, file>>
      BY <2>3 DEF watch_action, memory, outside
    <3>2. PICK epoch \in Nat : epoch = row[w].epoch + 1
      BY <2>1
    <3> DEFINE r == [row[w] EXCEPT !.mode = mode, !.epoch = epoch]
    <3>3. r \in [mode : Mode, epoch : Nat, checkpoint : Samples]
          /\ r.checkpoint = row[w].checkpoint
      BY <2>1
    <3>4. row' = [row EXCEPT ![w] = r]
      BY <3>1, <3>2 DEF DurableOK
    <3> QED BY <3>1, <3>3, <3>4
  <2> QED BY <2>2, <2>3
<1>2. row' \in [Watch -> [mode : Mode, epoch : Nat, checkpoint : Samples]]
      /\ \A v \in Watch : row'[v].checkpoint = row[v].checkpoint
  BY <1>1 DEF DurableOK
<1>3. JobsOK' /\ DurableOK'
  BY <1>1, <1>2 DEF DurableOK, JobsOK
<1>4. EventsFormChain'
  BY <1>1, <1>2, ChainEach DEF EventsFormChain, Chain
<1> QED BY <1>3, <1>4

\* Steps of a job before its end, of the file and of time, and a death.
LEMMA OthersKeep ==
    ASSUME IInv,
           \/ \E w \in Watch :
                \/ Sample(w) \/ SampleUnreadable(w) \/ SampleFails(w)
                \/ IntervalElapses(w) \/ DebounceElapses(w)
                \/ \E content \in Content : Change(w, content)
           \/ Die \/ Start \/ UNCHANGED vars
    PROVE  IInv'
<1> USE DEF IInv
<1>1. UNCHANGED <<row, reported>>
  BY DEF Sample, SampleUnreadable, SampleFails, IntervalElapses, DebounceElapses, Change, Die,
         Start, vars, durable
<1>2. file' \in [Watch -> Content]
  BY DEF Sample, SampleUnreadable, SampleFails, IntervalElapses, DebounceElapses, Change, Die,
         Start, vars, outside, DurableOK
<1>3. JobsOK'
  <2>1. ASSUME NEW w \in Watch, NEW copy, Done(w, copy) PROVE JobsOK'
    <3>1. JobOK([NoJob EXCEPT !.at = "done", !.copy = copy])
      BY NoJobIsOK
    <3> QED BY <2>1, <3>1 DEF Done, JobsOK
  <2>2. ASSUME NEW w \in Watch, Sample(w) PROVE JobsOK'
    <3>1. CASE Observes[w][file[w]] = None
      BY <2>1, <2>2, <3>1 DEF Sample
    <3>2. CASE Observes[w][file[w]] # None
      <4>1. Observes[w][file[w]] \in Content
        BY <3>2, CollectorConstants DEF DurableOK
      <4>2. PICK copy : job' = [job EXCEPT ![w] =
                        [job[w] EXCEPT !.at = "read", !.sample = Observes[w][file[w]], !.copy = copy]]
        BY <2>2, <3>2 DEF Sample
      <4>3. JobOK(job'[w]) /\ \A v \in Watch \ {w} : job'[v] = job[v]
        BY <4>1, <4>2 DEF JobsOK, JobOK
      <4> QED BY <4>2, <4>3 DEF JobsOK
    <3> QED BY <3>1, <3>2
  <2>3. ASSUME NEW w \in Watch, SampleUnreadable(w) \/ SampleFails(w) PROVE JobsOK'
    BY <2>1, <2>3 DEF SampleUnreadable, SampleFails
  <2>4. ASSUME NEW w \in Watch, DebounceElapses(w) PROVE JobsOK'
    <3>1. CASE job' = job
      BY <3>1 DEF JobsOK
    <3>2. CASE job' # job
      <4>1. job' = [job EXCEPT ![w].copy.candidate.ripe = TRUE]
        BY <2>4, <3>2 DEF DebounceElapses
      <4>2. JobOK(job'[w]) /\ \A v \in Watch \ {w} : job'[v] = job[v]
        BY <4>1 DEF JobsOK, JobOK
      <4> QED BY <4>1, <4>2 DEF JobsOK
    <3> QED BY <3>1, <3>2
  <2>5. CASE Die
    BY <2>5, NoJobIsOK DEF Die, JobsOK
  <2>6. CASE UNCHANGED job
    BY <2>6 DEF JobsOK
  <2>7. ASSUME NEW w \in Watch, IntervalElapses(w) \/ \E content \in Content : Change(w, content)
        PROVE  JobsOK'
    BY <2>6, <2>7 DEF IntervalElapses, Change, memory
  <2>8. CASE Start \/ UNCHANGED vars
    BY <2>6, <2>8 DEF Start, vars, memory
  <2> QED BY <2>2, <2>3, <2>4, <2>5, <2>7, <2>8
<1> QED BY <1>1, <1>2, <1>3 DEF DurableOK, EventsFormChain

\* The events and the checkpoint of each watch agree in every state.
THEOREM Invariant == Spec => []IInv
<1>1. Init => IInv
  <2> SUFFICES ASSUME Init PROVE IInv
    OBVIOUS
  <2>1. DurableOK
    BY DEF Init, DurableOK, NoRow, Mode, Samples
  <2>2. JobsOK
    BY NoJobIsOK DEF Init, JobsOK
  <2>3. EventsFormChain
    BY DEF Init, EventsFormChain
  <2> QED BY <2>1, <2>2, <2>3 DEF IInv
<1>2. IInv /\ [Next]_vars => IInv'
  BY CommandKeeps, OthersKeep, StoreKeeps, DispatcherKeeps DEF Next, Work
<1> QED BY <1>1, <1>2, PTL DEF Spec

\* No event of a watch is lost or repeated between two that are stored: each
\* begins where the one before ended, over pauses, deaths, refused events and
\* jobs that outlive their epoch.
THEOREM EventsAreAChain == Spec => []EventsFormChain
  BY Invariant, PTL DEF IInv

-----------------------------------------------------------------------------
(* Epochs.  What a runtime or a job's copy of it says of its watch is only   *)
(* of use while its epoch is that of the row.                              *)

Candidate == [sample : Samples, epoch : Nat, ripe : BOOLEAN]
Runtimes == [known : BOOLEAN, active : BOOLEAN, epoch : Nat, dirty : BOOLEAN,
             due : BOOLEAN, candidate : Candidate, path : Dir \cup {None}]
Jobs == [at : {"none", "reading", "read", "done"}, sample : Samples,
         ripe : BOOLEAN, copy : Runtimes]
Streaks == [sample : Samples, length : 0..2]

\* A runtime or copy is not ahead of the row, and active in its epoch only if the row is.
Fits(c, w) ==
    /\ c \in Runtimes
    /\ c.known => row[w].mode # "none"
    /\ c.active => c.known
    /\ c.epoch <= row[w].epoch
    /\ (c.active /\ c.epoch = row[w].epoch) => row[w].mode = "enabled"
    /\ ~c.known => c.candidate.sample = None

\* A candidate of this epoch is the last sample of this epoch.
Recent(c, w) ==
    (/\ w \in Debounced
     /\ c.epoch = row[w].epoch /\ c.candidate.epoch = c.epoch
     /\ c.candidate.sample # None) => streak[w].sample = c.candidate.sample

\* The job of a watch.  What it read in this epoch was in the file in this epoch.
JobFits(j, w) ==
    /\ j \in Jobs
    /\ j.at # "none" => Fits(j.copy, w) /\ j.copy.active /\ Recent(j.copy, w)
    /\ (j.at = "read" /\ j.copy.epoch = row[w].epoch) =>
           \E content \in fresh[w] : Observes[w][content] = j.sample

\* The candidate of the runtime counts until the job has a newer one.
Together(r, j, w) ==
    /\ Fits(r, w) /\ JobFits(j, w)
    /\ Recent(r, w) \/ (j.at = "done" /\ j.copy.epoch = row[w].epoch)

WatchOK(w) ==
    /\ Together(runtime[w], job[w], w)
    /\ streak[w] \in Streaks
    /\ row[w].mode # "none" => file[w] \in fresh[w]

Domains == /\ DOMAIN runtime = Watch /\ DOMAIN job = Watch
           /\ DOMAIN streak = Watch /\ DOMAIN fresh = Watch

EpochInv == Domains /\ \A w \in Watch : WatchOK(w)

-----------------------------------------------------------------------------
(* Records of these types.                                                 *)

\* What the invariant asks of a runtime is left alone.
Same(a, b) ==
    /\ a \in Runtimes
    /\ a.known = b.known /\ a.active = b.active /\ a.epoch = b.epoch
    /\ a.candidate.sample = b.candidate.sample /\ a.candidate.epoch = b.candidate.epoch

LEMMA SameItself == ASSUME NEW c \in Runtimes PROVE Same(c, c)
  BY DEF Same

LEMMA SameDirty == ASSUME NEW c \in Runtimes, NEW b \in BOOLEAN PROVE Same([c EXCEPT !.dirty = b], c)
  BY DEF Same, Runtimes

LEMMA SameDue == ASSUME NEW c \in Runtimes, NEW b \in BOOLEAN PROVE Same([c EXCEPT !.due = b], c)
  BY DEF Same, Runtimes

LEMMA SamePath ==
    ASSUME NEW c \in Runtimes, NEW d \in Dir \cup {None} PROVE Same([c EXCEPT !.path = d], c)
  BY DEF Same, Runtimes

LEMMA SameRipe == ASSUME NEW c \in Runtimes PROVE Same([c EXCEPT !.candidate.ripe = TRUE], c)
<1>1. PICK d \in Candidate : d = [c.candidate EXCEPT !.ripe = TRUE]
  BY DEF Runtimes, Candidate
<1>2. d.sample = c.candidate.sample /\ d.epoch = c.candidate.epoch
  BY <1>1 DEF Runtimes, Candidate
<1>3. [c EXCEPT !.candidate.ripe = TRUE] = [c EXCEPT !.candidate = d]
  BY <1>1
<1>4. Same([c EXCEPT !.candidate = d], c)
  BY <1>2 DEF Same, Runtimes
<1> QED BY <1>3, <1>4

LEMMA SameAgain ==
    ASSUME NEW a, NEW b, NEW c, Same(a, b), Same(b, c) PROVE Same(a, c)
  BY DEF Same

LEMMA SameFits ==
    ASSUME NEW a, NEW b, NEW w, Same(a, b), Fits(b, w)
    PROVE  Fits(a, w)
  BY DEF Same, Fits

LEMMA SameRecent ==
    ASSUME NEW a, NEW b, NEW w, Same(a, b), Recent(b, w)
    PROVE  Recent(a, w)
  BY DEF Same, Recent

LEMMA NoneOfTypes ==
    /\ NoCandidate \in Candidate /\ NoRuntime \in Runtimes /\ NoJob \in Jobs
    /\ NoStreak \in Streaks
<1>1. NoCandidate \in Candidate
  BY DEF NoCandidate, Candidate, Samples
<1>2. NoRuntime \in Runtimes
  BY <1>1 DEF NoRuntime, Runtimes
<1>3. NoJob \in Jobs
  BY <1>2 DEF NoJob, Jobs, Samples
<1> QED BY <1>1, <1>2, <1>3 DEF NoStreak, Streaks, Samples

LEMMA NothingFits ==
    ASSUME NEW w \in Watch, row[w].epoch \in Nat
    PROVE  Fits(NoRuntime, w) /\ Recent(NoRuntime, w) /\ JobFits(NoJob, w)
  BY NoneOfTypes DEF Fits, Recent, JobFits, NoRuntime, NoCandidate, NoJob

-----------------------------------------------------------------------------
(* Steps of the dispatcher.                                                *)

\* What a step of the dispatcher or of time does not write.
Outside(w) == row'[w] = row[w] /\ streak'[w] = streak[w] /\ fresh'[w] = fresh[w] /\ file'[w] = file[w]

LEMMA TogetherMoves ==
    ASSUME NEW r, NEW j, NEW w \in Watch, Together(r, j, w), Outside(w)
    PROVE  Together(r, j, w)'
  BY DEF Together, Fits, JobFits, Recent, Outside

\* A turn marks runtimes dirty or not, and copies those it starts.
LEMMA TurnTogether ==
    ASSUME NEW runtimes, NEW jobs, NEW w \in Watch, Together(runtimes[w], jobs[w], w),
           Turn(runtimes, jobs)
    PROVE  Together(runtime'[w], job'[w], w)
<1> DEFINE swept == [v \in Watch |-> IF overflow /\ runtimes[v].active
                                     THEN [runtimes[v] EXCEPT !.dirty = TRUE] ELSE runtimes[v]]
           begun(some) == [v \in Watch |-> IF v \in some
                                           THEN [swept[v] EXCEPT !.dirty = FALSE] ELSE swept[v]]
           start(some, v) == [at |-> "reading", sample |-> None,
                              ripe |-> begun(some)[v].candidate.ripe, copy |-> begun(some)[v]]
<1>1. PICK some \in Starts(swept, jobs) :
         /\ runtime' = begun(some)
         /\ job' = [v \in Watch |-> IF v \in some THEN start(some, v) ELSE jobs[v]]
  BY Zenon DEF Turn
<1>2. PICK old : old = runtimes[w]
  OBVIOUS
<1>3. old \in Runtimes /\ Fits(old, w)
  BY <1>2 DEF Together, Fits
<1>4. Same(swept[w], old)
  <2>1. CASE overflow /\ runtimes[w].active
    BY <1>2, <1>3, <2>1, SameDirty
  <2>2. CASE ~(overflow /\ runtimes[w].active)
    BY <1>2, <1>3, <2>2, SameItself
  <2> QED BY <2>1, <2>2
<1>5. PICK seen : seen = swept[w]
  OBVIOUS
<1>6. Same(seen, old) /\ seen \in Runtimes
  BY <1>4, <1>5 DEF Same
<1>7. w \in some => seen.active /\ jobs[w].at = "none"
  <2>1. some \subseteq Ready(swept, jobs)
    BY DEF Starts
  <2> HIDE DEF swept
  <2> QED BY <1>5, <2>1 DEF Ready, InFlight
<1>8. runtime'[w] = IF w \in some THEN [seen EXCEPT !.dirty = FALSE] ELSE seen
  BY <1>1, <1>5
<1>9. job'[w] = IF w \in some THEN [at |-> "reading", sample |-> None,
                                    ripe |-> runtime'[w].candidate.ripe, copy |-> runtime'[w]]
                ELSE jobs[w]
  BY <1>1
<1> HIDE DEF swept, begun, start
<1>10. CASE w \notin some
  BY <1>2, <1>6, <1>8, <1>9, <1>10, SameFits, SameRecent DEF Together
<1>11. CASE w \in some
  <2>1. PICK new : new = runtime'[w]
    OBVIOUS
  <2>2. Same(new, seen)
    BY <1>6, <1>8, <1>11, <2>1, SameDirty
  <2>3. Same(new, old) /\ new \in Runtimes /\ new.active
    BY <1>6, <1>7, <1>11, <2>2, SameAgain DEF Same
  <2>4. Fits(new, w) /\ Recent(new, w)
    BY <1>2, <1>3, <1>7, <1>11, <2>3, SameFits, SameRecent DEF Together
  <2>5. new.candidate.ripe \in BOOLEAN
    BY <2>3 DEF Runtimes, Candidate
  <2>6. PICK j : j = [at |-> "reading", sample |-> None, ripe |-> new.candidate.ripe, copy |-> new]
    OBVIOUS
  <2>7. JobFits(j, w)
    BY <2>3, <2>4, <2>5, <2>6 DEF JobFits, Jobs, Samples
  <2> QED BY <1>9, <1>11, <2>1, <2>4, <2>6, <2>7 DEF Together
<1> QED BY <1>10, <1>11

LEMMA TurnKeeps ==
    ASSUME EpochInv, NEW runtimes, NEW jobs, Turn(runtimes, jobs),
           \A w \in Watch : Together(runtimes[w], jobs[w], w),
           UNCHANGED <<row, streak, fresh, file>>
    PROVE  EpochInv'
<1>1. DOMAIN runtime' = Watch /\ DOMAIN job' = Watch
  BY DEF Turn
<1>2. ASSUME NEW w \in Watch PROVE WatchOK(w)'
  <2>1. Together(runtime'[w], job'[w], w)
    BY TurnTogether
  <2>2. PICK r, j : r = runtime'[w] /\ j = job'[w]
    OBVIOUS
  <2>3. Together(r, j, w) /\ Outside(w)
    BY <2>1, <2>2 DEF Outside
  <2>4. Together(r, j, w)'
    BY <2>3, TogetherMoves
  <2> QED BY <2>2, <2>4 DEF EpochInv, WatchOK, Together, Fits, JobFits, Recent
<1> QED BY <1>1, <1>2 DEF EpochInv, Domains

\* A runtime after the store was read.
LEMMA RereadTogether ==
    ASSUME IInv, EpochInv, NEW w \in Watch
    PROVE  Together(Reread(w), job[w], w)
<1>1. WatchOK(w) /\ row[w] \in [mode : Mode, epoch : Nat, checkpoint : Samples]
  BY DEF EpochInv, IInv, DurableOK
<1>2. CASE w \notin Listed
  BY <1>1, <1>2, NothingFits DEF Reread, WatchOK, Together
<1>3. CASE w \in Listed
  <2>1. PICK old \in Runtimes : old = runtime[w]
    BY <1>1 DEF WatchOK, Together, Fits
  <2>2. PICK active \in BOOLEAN : active = IsActive(w)
    BY DEF IsActive
  <2>3. PICK dirty \in BOOLEAN :
          dirty = (old.dirty \/ (IsActive(w) /\ (~WasActive(w) \/ EpochChanged(w))))
    OBVIOUS
  <2>4. PICK due \in BOOLEAN : due = (old.due \/ (IsActive(w) /\ EpochChanged(w)))
    OBVIOUS
  <2>5. PICK d \in Candidate : d = IF EpochChanged(w) THEN NoCandidate ELSE old.candidate
    BY NoneOfTypes DEF Runtimes
  <2>6. PICK e \in Nat : e = row[w].epoch
    BY <1>1
  <2>7. PICK new : new = [known |-> TRUE, active |-> active, epoch |-> e, dirty |-> dirty,
                          due |-> due, candidate |-> d, path |-> old.path]
    OBVIOUS
  <2>8. Reread(w) = new
    <3>1. Reread(w) = [old EXCEPT !.known = TRUE, !.active = IsActive(w), !.epoch = row[w].epoch,
              !.dirty = old.dirty \/ (IsActive(w) /\ (~WasActive(w) \/ EpochChanged(w))),
              !.due = old.due \/ (IsActive(w) /\ EpochChanged(w)),
              !.candidate = IF EpochChanged(w) THEN NoCandidate ELSE old.candidate]
      BY <1>3, <2>1 DEF Reread
    <3>2. Reread(w) = [old EXCEPT !.known = TRUE, !.active = active, !.epoch = e, !.dirty = dirty,
                                  !.due = due, !.candidate = d]
      BY <2>2, <2>3, <2>4, <2>5, <2>6, <3>1, Zenon
    <3> QED BY <2>7, <3>2 DEF Runtimes
  <2>9. new \in Runtimes
    BY <2>1, <2>7 DEF Runtimes
  <2>10. row[w].mode \in {"enabled", "paused"} /\ (active => row[w].mode = "enabled")
    BY <1>3, <2>2 DEF Listed, IsActive
  <2>11. Fits(new, w)
    BY <2>6, <2>7, <2>9, <2>10 DEF Fits
  <2>12. d.sample = None \/ (d = old.candidate /\ old.epoch = e)
    <3>1. CASE EpochChanged(w)
      BY <2>5, <3>1 DEF NoCandidate
    <3>2. CASE ~EpochChanged(w) /\ old.known
      BY <2>1, <2>5, <2>6, <3>2 DEF EpochChanged
    <3>3. CASE ~EpochChanged(w) /\ ~old.known
      BY <1>1, <2>1, <2>5, <3>3 DEF WatchOK, Together, Fits
    <3> QED BY <3>1, <3>2, <3>3
  <2>13. Recent(new, w) \/ (job[w].at = "done" /\ job[w].copy.epoch = row[w].epoch)
    <3>1. CASE d.sample = None
      BY <2>7, <3>1 DEF Recent
    <3>2. CASE d = old.candidate /\ old.epoch = e
      BY <1>1, <2>1, <2>6, <2>7, <3>2 DEF WatchOK, Together, Recent
    <3> QED BY <2>12, <3>1, <3>2
  <2> QED BY <1>1, <2>8, <2>11, <2>13 DEF WatchOK, Together
<1> QED BY <1>2, <1>3

\* A runtime after its job was joined.
LEMMA MergedTogether ==
    ASSUME IInv, EpochInv, NEW w \in Watch, job[w].at = "done",
           runtime[w].epoch = job[w].copy.epoch, NEW copy, Same(copy, job[w].copy)
    PROVE  Together(Merged(runtime[w], copy), NoJob, w)
<1>1. WatchOK(w) /\ row[w].epoch \in Nat
  BY DEF EpochInv, IInv, DurableOK
<1>2. PICK old : old = job[w].copy
  OBVIOUS
<1>3. Fits(copy, w) /\ Recent(copy, w)
  BY <1>1, <1>2, SameFits, SameRecent DEF WatchOK, Together, JobFits
<1>4. PICK dirty \in BOOLEAN : dirty = (copy.dirty \/ runtime[w].dirty)
  OBVIOUS
<1>5. copy \in Runtimes
  BY DEF Same
<1>6. PICK new : new = [copy EXCEPT !.dirty = dirty]
  OBVIOUS
<1>7. Merged(runtime[w], copy) = new
  BY <1>4, <1>6, Zenon DEF Merged
<1>8. Same(new, copy)
  BY <1>5, <1>6, SameDirty
<1>9. Fits(new, w) /\ Recent(new, w)
  BY <1>3, <1>8, SameFits, SameRecent
<1> QED BY <1>1, <1>7, <1>9, NothingFits DEF Together

LEMMA FinishKeepsEpochs ==
    ASSUME IInv, EpochInv, NEW w \in Watch, Finish(w)
    PROVE  EpochInv'
<1>1. WatchOK(w) /\ row[w].epoch \in Nat /\ job[w].at = "done"
  BY DEF EpochInv, IInv, DurableOK, Finish
<1>2. UNCHANGED <<row, streak, fresh, file>>
  BY DEF Finish, durable, outside, history
<1> DEFINE copy == job[w].copy
           joined == [job EXCEPT ![w] = NoJob]
<1>3. joined[w] = NoJob /\ \A v \in Watch \ {w} : joined[v] = job[v]
  BY DEF EpochInv, Domains
<1>4. Same(copy, copy)
  BY <1>1, SameItself DEF WatchOK, Together, JobFits, Jobs
<1>5. \/ Turn(runtime, joined) /\ runtime[w].epoch # copy.epoch
      \/ Turn(runtime, joined) /\ ~runtime[w].known
      \/ /\ runtime[w].epoch = copy.epoch
         /\ \E new \in {copy, CaughtUp(copy)} :
              Turn([runtime EXCEPT ![w] = Merged(runtime[w], new)], joined)
  BY DEF Finish
<1> HIDE DEF joined
<1>6. \A v \in Watch \ {w} : Together(runtime[v], joined[v], v)
  BY <1>3 DEF EpochInv, WatchOK
<1>7. ASSUME runtime[w].epoch # copy.epoch \/ ~runtime[w].known, Turn(runtime, joined)
      PROVE  EpochInv'
  <2>1. Recent(runtime[w], w)
    <3>1. CASE ~runtime[w].known
      BY <1>1, <3>1 DEF WatchOK, Together, Fits, Recent
    <3>2. CASE runtime[w].epoch # copy.epoch
      BY <1>1, <3>2 DEF WatchOK, Together, Recent
    <3> QED BY <1>7, <3>1, <3>2
  <2>2. Together(runtime[w], joined[w], w)
    BY <1>1, <1>3, <2>1, NothingFits DEF WatchOK, Together
  <2> QED BY <1>2, <1>6, <1>7, <2>2, TurnKeeps
<1>8. ASSUME runtime[w].epoch = copy.epoch, NEW new \in {copy, CaughtUp(copy)},
             Turn([runtime EXCEPT ![w] = Merged(runtime[w], new)], joined)
      PROVE  EpochInv'
  <2>1. Same(new, copy)
    <3>1. CASE new = copy
      BY <1>4, <3>1
    <3>2. CASE new = CaughtUp(copy)
      <4>1. Same([copy EXCEPT !.dirty = TRUE], copy)
        BY <1>4, SameDirty DEF Same
      <4> QED BY <3>2, <4>1 DEF CaughtUp
    <3> QED BY <1>8, <3>1, <3>2
  <2>2. Together(Merged(runtime[w], new), NoJob, w)
    BY <1>1, <1>8, <2>1, MergedTogether
  <2>3. PICK merged : merged = Merged(runtime[w], new)
    OBVIOUS
  <2>4. PICK runtimes : runtimes = [runtime EXCEPT ![w] = merged]
    OBVIOUS
  <2>5. runtimes[w] = merged /\ \A v \in Watch \ {w} : runtimes[v] = runtime[v]
    BY <2>4 DEF EpochInv, Domains
  <2>6. \A v \in Watch : Together(runtimes[v], joined[v], v)
    BY <1>3, <1>6, <2>2, <2>3, <2>5
  <2>7. Turn(runtimes, joined)
    BY <1>8, <2>3, <2>4
  <2> QED BY <1>2, <2>6, <2>7, TurnKeeps
<1> QED BY <1>5, <1>7, <1>8

LEMMA DispatcherKeepsEpochs ==
    ASSUME IInv, EpochInv, Dispatcher
    PROVE  EpochInv'
<1>1. UNCHANGED <<row, streak, fresh, file>>
  BY DEF Dispatcher, Reload, Receive, Timer, durable, outside, history
<1>2. CASE Reload
  <2>1. PICK runtimes : runtimes = [w \in Watch |-> Reread(w)]
    OBVIOUS
  <2>2. Turn(runtimes, job)
    BY <1>2, <2>1 DEF Reload
  <2>3. \A w \in Watch : Together(runtimes[w], job[w], w)
    BY <2>1, RereadTogether
  <2> QED BY <1>1, <2>2, <2>3, TurnKeeps
<1>3. CASE Receive
  <2>1. PICK runtimes : runtimes =
            [w \in Watch |-> IF runtime[w].known /\ Matches(runtime[w], w, Head(queue))
                             THEN [runtime[w] EXCEPT !.dirty = TRUE] ELSE runtime[w]]
    OBVIOUS
  <2>2. Turn(runtimes, job)
    BY <1>3, <2>1 DEF Receive
  <2>3. ASSUME NEW w \in Watch PROVE Together(runtimes[w], job[w], w)
    <3>1. PICK old : old = runtime[w]
      OBVIOUS
    <3>2. WatchOK(w) /\ old \in Runtimes
      BY <3>1 DEF EpochInv, WatchOK, Together, Fits
    <3>3. PICK new : new = runtimes[w]
      OBVIOUS
    <3>4. Same(new, old)
      BY <2>1, <3>1, <3>2, <3>3, SameItself, SameDirty
    <3> QED BY <3>1, <3>2, <3>3, <3>4, SameFits, SameRecent DEF WatchOK, Together
  <2> QED BY <1>1, <2>2, <2>3, TurnKeeps
<1>4. CASE Timer
  <2>1. Turn(runtime, job) /\ \A w \in Watch : Together(runtime[w], job[w], w)
    BY <1>4 DEF Timer, EpochInv, WatchOK
  <2> QED BY <1>1, <2>1, TurnKeeps
<1> QED BY <1>2, <1>3, <1>4 DEF Dispatcher

-----------------------------------------------------------------------------
(* The other steps.                                                        *)

\* The watches that a step does not concern.
Bystander(v) == Outside(v) /\ runtime'[v] = runtime[v] /\ job'[v] = job[v]

LEMMA BystanderKeeps ==
    ASSUME NEW v \in Watch, WatchOK(v), Bystander(v)
    PROVE  WatchOK(v)'
<1>1. PICK r, j : r = runtime[v] /\ j = job[v]
  OBVIOUS
<1>2. Together(r, j, v)'
  BY <1>1, TogetherMoves DEF WatchOK, Bystander
<1> QED BY <1>1, <1>2 DEF WatchOK, Bystander, Outside, Together, Fits, JobFits, Recent

LEMMA OneWatchMoves ==
    ASSUME EpochInv, NEW w \in Watch, Domains', \A v \in Watch \ {w} : Bystander(v), WatchOK(w)'
    PROVE  EpochInv'
  BY BystanderKeeps DEF EpochInv

\* A new epoch, or the first: what runtime and job say no longer counts.
LEMMA CommandKeepsEpochs ==
    ASSUME IInv, EpochInv, NEW w \in Watch, watch_create(w) \/ \E mode \in Mode : watch_action(w, mode)
    PROVE  EpochInv'
<1>1. /\ UNCHANGED <<runtime, job, file>>
      /\ fresh' = [fresh EXCEPT ![w] = {file[w]}] /\ streak' = [streak EXCEPT ![w] = NoStreak]
  BY DEF watch_create, watch_action, memory, outside, Began
<1>2. /\ \A v \in Watch \ {w} : row'[v] = row[v]
      /\ row'[w].epoch \in Nat /\ row[w].epoch \in Nat /\ row'[w].mode # "none"
      /\ \/ row[w].mode = "none" /\ row'[w].epoch = row[w].epoch /\ row'[w].mode = "enabled"
         \/ row'[w].epoch = row[w].epoch + 1
  <2>1. CASE watch_create(w)
    BY <2>1 DEF watch_create, IInv, DurableOK
  <2>2. ASSUME NEW mode \in Mode, watch_action(w, mode)
        PROVE  /\ \A v \in Watch \ {w} : row'[v] = row[v]
               /\ row'[w].epoch \in Nat /\ row[w].epoch \in Nat /\ row'[w].mode # "none"
               /\ row'[w].epoch = row[w].epoch + 1
    <3>1. row' = [row EXCEPT ![w].mode = mode, ![w].epoch = @ + 1]
          /\ mode \in {"enabled", "paused", "removed"}
      BY <2>2 DEF watch_action
    <3>2. row[w] \in [mode : Mode, epoch : Nat, checkpoint : Samples] /\ DOMAIN row = Watch
      BY DEF IInv, DurableOK
    <3>3. row'[w] = [row[w] EXCEPT !.mode = mode, !.epoch = row[w].epoch + 1]
      BY <3>1, <3>2
    <3>4. row'[w].mode = mode /\ row'[w].epoch = row[w].epoch + 1
      BY <3>2, <3>3
    <3>5. \A v \in Watch \ {w} : row'[v] = row[v]
      BY <3>1, <3>2
    <3> QED BY <3>1, <3>2, <3>4, <3>5
  <2> QED BY <2>1, <2>2
<1>3. \A v \in Watch \ {w} : Bystander(v)
  BY <1>1, <1>2 DEF Bystander, Outside, EpochInv, Domains
<1>4. Domains'
  BY <1>1 DEF EpochInv, Domains
<1>5. streak'[w] = NoStreak /\ fresh'[w] = {file[w]}
  BY <1>1 DEF EpochInv, Domains
<1>6. PICK r, j : r = runtime[w] /\ j = job[w]
  OBVIOUS
<1>7. WatchOK(w) /\ Together(r, j, w)
  BY <1>6 DEF EpochInv, WatchOK
<1>8. Fits(r, w)' /\ Recent(r, w)'
  <2>1. r \in Runtimes /\ r.epoch \in Nat
    BY <1>7 DEF Together, Fits, Runtimes
  <2>2. CASE row'[w].epoch = row[w].epoch + 1
    BY <1>2, <1>7, <2>1, <2>2 DEF Together, Fits, Recent
  <2>3. CASE row[w].mode = "none" /\ row'[w].epoch = row[w].epoch /\ row'[w].mode = "enabled"
    BY <1>2, <1>7, <2>1, <2>3 DEF Together, Fits, Recent
  <2> QED BY <1>2, <2>2, <2>3
<1>9. JobFits(j, w)'
  <2>1. CASE j.at = "none"
    BY <1>7, <2>1 DEF Together, JobFits
  <2>2. CASE j.at # "none"
    <3>1. PICK copy : copy = j.copy
      OBVIOUS
    <3>2. copy \in Runtimes /\ copy.epoch \in Nat /\ Fits(copy, w) /\ copy.active
      BY <1>7, <2>2, <3>1 DEF Together, JobFits, Fits, Runtimes
    <3>3. row'[w].epoch = row[w].epoch + 1
      BY <1>2, <3>2 DEF Fits
    <3>4. Fits(copy, w)' /\ Recent(copy, w)' /\ copy.epoch # row'[w].epoch
      BY <1>2, <3>2, <3>3 DEF Fits, Recent
    <3> QED BY <1>7, <2>2, <3>1, <3>2, <3>4 DEF Together, JobFits
  <2> QED BY <2>1, <2>2
<1>10. WatchOK(w)'
  BY <1>1, <1>5, <1>6, <1>8, <1>9, NoneOfTypes DEF WatchOK, Together, Fits, JobFits, Recent
<1> QED BY <1>3, <1>4, <1>10, OneWatchMoves

\* A change of the file adds to what was in it.
LEMMA ChangeKeepsEpochs ==
    ASSUME IInv, EpochInv, NEW w \in Watch, NEW content \in Content, Change(w, content)
    PROVE  EpochInv'
<1>1. /\ UNCHANGED <<row, runtime, job, streak>>
      /\ file' = [file EXCEPT ![w] = content]
      /\ fresh' = [fresh EXCEPT ![w] = @ \cup {content}]
  BY DEF Change, durable, memory
<1>2. fresh'[w] = fresh[w] \cup {content} /\ file'[w] = content
  BY <1>1 DEF EpochInv, Domains, IInv, DurableOK
<1>3. \A v \in Watch \ {w} : Bystander(v)
  BY <1>1 DEF Bystander, Outside, EpochInv, Domains, IInv, DurableOK
<1>4. Domains'
  BY <1>1 DEF EpochInv, Domains
<1>5. PICK r, j : r = runtime[w] /\ j = job[w]
  OBVIOUS
<1>6. WatchOK(w) /\ Together(r, j, w)
  BY <1>5 DEF EpochInv, WatchOK
<1>7. Together(r, j, w)'
  BY <1>1, <1>2, <1>6 DEF Together, Fits, JobFits, Recent
<1>8. WatchOK(w)'
  BY <1>1, <1>2, <1>5, <1>6, <1>7 DEF WatchOK, Together, Fits, JobFits, Recent
<1> QED BY <1>3, <1>4, <1>8, OneWatchMoves

\* Time marks a runtime or a copy due or ripe.
LEMMA TimeKeepsEpochs ==
    ASSUME IInv, EpochInv, NEW w \in Watch, IntervalElapses(w) \/ DebounceElapses(w)
    PROVE  EpochInv'
<1>1. UNCHANGED <<row, streak, fresh, file>>
  BY DEF IntervalElapses, DebounceElapses, durable, outside, history
<1>2. WatchOK(w)
  BY DEF EpochInv
<1>3. ASSUME NEW r, Same(r, runtime[w]), runtime' = [runtime EXCEPT ![w] = r], job' = job
      PROVE  EpochInv'
  <2>1. Domains' /\ runtime'[w] = r
    BY <1>1, <1>3 DEF EpochInv, Domains
  <2>2. \A v \in Watch \ {w} : Bystander(v)
    BY <1>1, <1>3 DEF Bystander, Outside, EpochInv, Domains
  <2>3. PICK j : j = job[w]
    OBVIOUS
  <2>4. Together(r, j, w) /\ Outside(w)
    BY <1>1, <1>2, <1>3, <2>3, SameFits, SameRecent DEF WatchOK, Together, Outside
  <2>5. Together(r, j, w)'
    BY <2>4, TogetherMoves
  <2>6. WatchOK(w)'
    BY <1>1, <1>2, <1>3, <2>1, <2>3, <2>5 DEF WatchOK, Together, Fits, JobFits, Recent
  <2> QED BY <2>1, <2>2, <2>6, OneWatchMoves
<1>4. ASSUME NEW copy, job[w].at # "none", Same(copy, job[w].copy), runtime' = runtime,
             job' = [job EXCEPT ![w].copy = copy]
      PROVE  EpochInv'
  <2>1. PICK old : old = job[w]
    OBVIOUS
  <2>2. old \in Jobs /\ copy \in Runtimes
    BY <1>2, <1>4, <2>1 DEF WatchOK, Together, JobFits, Same
  <2>3. PICK new : new = [old EXCEPT !.copy = copy]
    OBVIOUS
  <2>4. /\ new \in Jobs /\ new.at = old.at /\ new.sample = old.sample /\ new.copy = copy
    BY <2>2, <2>3 DEF Jobs
  <2>5. job' = [job EXCEPT ![w] = new]
    BY <1>4, <2>1, <2>3
  <2>6. Domains' /\ job'[w] = new /\ \A v \in Watch \ {w} : job'[v] = job[v]
    BY <1>1, <1>4, <2>5 DEF EpochInv, Domains
  <2>7. \A v \in Watch \ {w} : Bystander(v)
    BY <1>1, <1>4, <2>6 DEF Bystander, Outside
  <2>8. Fits(copy, w) /\ Recent(copy, w) /\ copy.active /\ copy.epoch = old.copy.epoch
    BY <1>2, <1>4, <2>1, SameFits, SameRecent DEF WatchOK, Together, JobFits, Same
  <2>9. PICK r : r = runtime[w]
    OBVIOUS
  <2>10. Together(r, new, w) /\ Outside(w)
    BY <1>1, <1>2, <2>1, <2>4, <2>8, <2>9 DEF WatchOK, Together, JobFits, Outside
  <2>11. Together(r, new, w)'
    BY <2>10, TogetherMoves
  <2>12. WatchOK(w)'
    BY <1>1, <1>2, <1>4, <2>6, <2>9, <2>11 DEF WatchOK, Together, Fits, JobFits, Recent
  <2> QED BY <2>6, <2>7, <2>12, OneWatchMoves
<1>5. CASE IntervalElapses(w)
  <2>1. runtime' = [runtime EXCEPT ![w].due = TRUE] /\ job' = job
    BY <1>5 DEF IntervalElapses
  <2>2. PICK r : r = [runtime[w] EXCEPT !.due = TRUE]
    OBVIOUS
  <2>3. Same(r, runtime[w]) /\ runtime' = [runtime EXCEPT ![w] = r]
    BY <1>2, <2>1, <2>2, SameDue DEF WatchOK, Together, Fits
  <2> QED BY <1>3, <2>1, <2>3
<1>6. CASE DebounceElapses(w) /\ job[w].at = "none"
  <2>1. runtime' = [runtime EXCEPT ![w].candidate.ripe = TRUE] /\ job' = job
    BY <1>6 DEF DebounceElapses
  <2>2. PICK r : r = [runtime[w] EXCEPT !.candidate.ripe = TRUE]
    OBVIOUS
  <2>3. Same(r, runtime[w]) /\ runtime' = [runtime EXCEPT ![w] = r]
    BY <1>2, <2>1, <2>2, SameRipe DEF WatchOK, Together, Fits
  <2> QED BY <1>3, <2>1, <2>3
<1>7. CASE DebounceElapses(w) /\ job[w].at # "none"
  <2>1. job' = [job EXCEPT ![w].copy.candidate.ripe = TRUE] /\ runtime' = runtime
    BY <1>7 DEF DebounceElapses
  <2>2. PICK copy : copy = [job[w].copy EXCEPT !.candidate.ripe = TRUE]
    OBVIOUS
  <2>3. Same(copy, job[w].copy) /\ job' = [job EXCEPT ![w].copy = copy]
    BY <1>2, <2>1, <2>2, SameRipe DEF WatchOK, Together, JobFits, Jobs
  <2> QED BY <1>4, <1>7, <2>1, <2>3
<1> QED BY <1>5, <1>6, <1>7

-----------------------------------------------------------------------------
(* Steps of a job.                                                         *)

Becomes(w, new) ==
    DOMAIN job' = Watch /\ job'[w] = new /\ \A v \in Watch \ {w} : job'[v] = job[v]

LEMMA JobMoves ==
    ASSUME IInv, EpochInv, NEW w \in Watch, NEW new,
           Becomes(w, new), UNCHANGED <<runtime, fresh, file>>,
           \A v \in Watch \ {w} : row'[v] = row[v] /\ streak'[v] = streak[v],
           row'[w].mode = row[w].mode, row'[w].epoch = row[w].epoch,
           DOMAIN streak' = Watch, streak'[w] \in Streaks,
           JobFits(new, w)',
           \/ streak'[w] = streak[w] /\ job[w].at # "done"
           \/ new.at = "done" /\ new.copy.epoch = row[w].epoch
    PROVE  EpochInv'
<1>1. Domains' /\ job'[w] = new /\ \A v \in Watch \ {w} : job'[v] = job[v]
  BY DEF EpochInv, Domains, Becomes
<1>2. \A v \in Watch \ {w} : Bystander(v)
  BY <1>1 DEF Bystander, Outside
<1>3. PICK r : r = runtime[w]
  OBVIOUS
<1>4. WatchOK(w)
  BY DEF EpochInv
<1>5. Fits(r, w)'
  BY <1>3, <1>4 DEF WatchOK, Together, Fits
<1>6. Recent(r, w)' \/ (new.at = "done" /\ new.copy.epoch = row[w].epoch)
  BY <1>3, <1>4 DEF WatchOK, Together, Recent
<1>7. WatchOK(w)'
  BY <1>1, <1>3, <1>4, <1>5, <1>6 DEF WatchOK, Together, Fits, JobFits, Recent
<1> QED BY <1>1, <1>2, <1>7, OneWatchMoves

LEMMA EndedJob ==
    ASSUME NEW copy \in Runtimes, NEW j, j = [NoJob EXCEPT !.at = "done", !.copy = copy]
    PROVE  j \in Jobs /\ j.at = "done" /\ j.copy = copy
  BY NoneOfTypes DEF Jobs

LEMMA SampleKeepsEpochs ==
    ASSUME IInv, EpochInv, NEW w \in Watch, Sample(w) \/ SampleUnreadable(w) \/ SampleFails(w)
    PROVE  EpochInv'
<1>1. /\ UNCHANGED <<row, runtime, streak, fresh, file>> /\ job[w].at = "reading"
  BY DEF Sample, SampleUnreadable, SampleFails, durable, outside
<1>2. WatchOK(w) /\ DOMAIN streak = Watch
  BY DEF EpochInv, Domains
<1>3. PICK old : old = job[w]
  OBVIOUS
<1>4. old \in Jobs /\ Fits(old.copy, w) /\ old.copy.active /\ Recent(old.copy, w)
      /\ old.copy \in Runtimes /\ old.at = "reading"
  BY <1>1, <1>2, <1>3 DEF WatchOK, Together, JobFits, Fits
<1>5. ASSUME NEW copy, Same(copy, old.copy), Done(w, copy) PROVE EpochInv'
  <2>1. PICK j : j = [NoJob EXCEPT !.at = "done", !.copy = copy]
    OBVIOUS
  <2>2. Becomes(w, j)
    BY <1>5, <2>1 DEF Done, EpochInv, Domains, Becomes
  <2>3. j \in Jobs /\ j.at = "done" /\ j.copy = copy
    BY <1>5, <2>1, EndedJob DEF Same
  <2>4. Fits(copy, w) /\ Recent(copy, w) /\ copy.active
    BY <1>4, <1>5, SameFits, SameRecent DEF Same
  <2>5. JobFits(j, w)'
    BY <1>1, <2>3, <2>4 DEF JobFits, Fits, Recent
  <2> QED BY <1>1, <1>2, <2>2, <2>5, JobMoves DEF WatchOK
<1>6. PICK path \in Dir \cup {None} : path = Target[w]
  BY CollectorConstants
<1>7. PICK copy : copy = [old.copy EXCEPT !.path = path]
  OBVIOUS
<1>8. Same(copy, old.copy) /\ copy \in Runtimes
  BY <1>4, <1>7, SamePath DEF Same
<1>9. CASE Sample(w)
  <2>1. PICK sample : sample = Observes[w][file[w]]
    OBVIOUS
  <2>2. CASE sample = None
    <3>1. Done(w, copy) \/ Done(w, NoLongerDue(copy))
      BY <1>3, <1>6, <1>7, <1>9, <2>1, <2>2 DEF Sample
    <3>2. Same(NoLongerDue(copy), old.copy)
      BY <1>8, SameDue, SameAgain DEF NoLongerDue
    <3> QED BY <1>5, <1>8, <3>1, <3>2
  <2>3. CASE sample # None
    <3>1. sample \in Samples
      BY <2>1, CollectorConstants DEF IInv, DurableOK, Samples
    <3>2. job' = [job EXCEPT ![w] = [old EXCEPT !.at = "read", !.sample = sample, !.copy = copy]]
      BY <1>3, <1>6, <1>7, <1>9, <2>1, <2>3 DEF Sample
    <3>3. PICK new : new = [old EXCEPT !.at = "read", !.sample = sample, !.copy = copy]
      OBVIOUS
    <3>4. new \in Jobs /\ new.at = "read" /\ new.sample = sample /\ new.copy = copy
      BY <1>4, <1>8, <3>1, <3>3 DEF Jobs
    <3>5. Becomes(w, new)
      <4>1. DOMAIN job' = Watch /\ \A v \in Watch \ {w} : job'[v] = job[v]
        BY <3>2 DEF EpochInv, Domains
      <4>2. job'[w] = new
        BY <1>3, <3>2, <3>3 DEF EpochInv, Domains
      <4> QED BY <4>1, <4>2 DEF Becomes
    <3>6. Fits(copy, w) /\ Recent(copy, w) /\ copy.active
      BY <1>4, <1>8, SameFits, SameRecent DEF Same
    <3>7. copy.epoch = row[w].epoch => \E content \in fresh[w] : Observes[w][content] = sample
      BY <1>2, <2>1, <3>6 DEF Fits, WatchOK
    <3>8. JobFits(new, w)'
      BY <1>1, <3>4, <3>6, <3>7 DEF JobFits, Fits, Recent
    <3> QED BY <1>1, <1>2, <3>5, <3>8, JobMoves DEF WatchOK
  <2> QED BY <2>2, <2>3
<1>10. CASE SampleUnreadable(w)
  BY <1>3, <1>5, <1>6, <1>7, <1>8, <1>10 DEF SampleUnreadable
<1>11. CASE SampleFails(w)
  BY <1>3, <1>4, <1>5, <1>11, SameDue DEF SampleFails, NoLongerDue
<1> QED BY <1>9, <1>10, <1>11

\* What storing a sample leaves: the copy, its directory too, with another candidate or none.
Leaves(w, c) ==
    LET copy == job[w].copy IN
    /\ Done(w, c) /\ c \in Runtimes
    /\ c.known = copy.known /\ c.active = copy.active /\ c.epoch = copy.epoch
    /\ c.path = copy.path
    /\ (w \in Debounced /\ copy.epoch = row[w].epoch) =>
           c.candidate.sample \in {None, job[w].sample}

LEMMA StoreLeaves ==
    ASSUME IInv, EpochInv, NEW w \in Watch, NEW accepted, Store(w, accepted)
    PROVE  \E c : Leaves(w, c)
<1> DEFINE copy == job[w].copy
           sample == job[w].sample
           none == [copy EXCEPT !.candidate = NoCandidate]
           waiting == [sample |-> sample, epoch |-> copy.epoch, ripe |-> FALSE]
           next == [copy EXCEPT !.candidate = waiting]
           Kept(c) == /\ c \in Runtimes
                      /\ c.known = copy.known /\ c.active = copy.active /\ c.epoch = copy.epoch
                      /\ c.path = copy.path
<1>1. /\ copy \in Runtimes /\ sample \in Content /\ Fits(copy, w) /\ copy.active
      /\ job[w].at = "read"
  BY DEF EpochInv, WatchOK, Together, JobFits, Fits, Store, IInv, JobsOK, JobOK
<1>2. waiting \in Candidate /\ NoCandidate \in Candidate
  <2>1. sample \in Samples /\ copy.epoch \in Nat
    BY <1>1 DEF Samples, Runtimes
  <2> QED BY <2>1, NoneOfTypes DEF Candidate
<1>3. NoCandidate.sample = None /\ waiting.sample = sample
  BY DEF NoCandidate
<1> HIDE DEF waiting
<1>4. /\ Kept(copy) /\ Kept(none) /\ Kept(next)
      /\ none.candidate.sample = None /\ next.candidate.sample = sample
  BY <1>1, <1>2, <1>3 DEF Runtimes
<1>5. ASSUME NEW c, Kept(c) PROVE Kept(NoLongerDue(c)) /\ NoLongerDue(c).candidate = c.candidate
  BY <1>5 DEF NoLongerDue, Runtimes
<1>6. copy.epoch = row[w].epoch => MayCommit(w, copy.epoch)
  BY <1>1 DEF Fits, MayCommit
<1>7. \/ Done(w, NoLongerDue(none)) \/ Done(w, NoLongerDue(next))
      \/ Done(w, NoLongerDue(copy)) /\ ~MayCommit(w, copy.epoch)
      \/ Done(w, NoLongerDue(copy)) /\ w \notin Debounced
      \/ Done(w, NoLongerDue(copy)) /\ copy.candidate.sample = sample
  BY DEF Store, AgainAsBefore, waiting
<1> HIDE DEF none, next
<1>8. ASSUME NEW c, Kept(c), Done(w, NoLongerDue(c)),
             (w \in Debounced /\ copy.epoch = row[w].epoch) => c.candidate.sample \in {None, sample}
      PROVE  Leaves(w, NoLongerDue(c))
  BY <1>5, <1>8 DEF Leaves
<1> QED BY <1>4, <1>6, <1>7, <1>8

\* The streak of this epoch gets the sample; that of another does not.
LEMMA StoreCounts ==
    ASSUME IInv, EpochInv, NEW w \in Watch, NEW accepted, Store(w, accepted)
    PROVE  /\ DOMAIN streak' = Watch /\ streak'[w] \in Streaks
           /\ \A v \in Watch \ {w} : streak'[v] = streak[v]
           /\ IF job[w].copy.epoch = row[w].epoch
              THEN /\ streak'[w].sample = job[w].sample
                   /\ streak[w].sample = job[w].sample =>
                        streak'[w] = [sample |-> job[w].sample, length |-> 2]
              ELSE streak'[w] = streak[w]
<1>1. Counted(w, job[w].copy.epoch, job[w].sample)
  BY DEF Store
<1>2. streak[w] \in Streaks /\ DOMAIN streak = Watch /\ job[w].sample \in Samples
  BY DEF EpochInv, Domains, WatchOK, Store, IInv, JobsOK, JobOK, Samples
<1>3. CASE row[w].epoch # job[w].copy.epoch
  BY <1>1, <1>2, <1>3 DEF Counted
<1>4. CASE row[w].epoch = job[w].copy.epoch
  <2>1. PICK new : new = IF streak[w].sample = job[w].sample THEN [streak[w] EXCEPT !.length = 2]
                         ELSE [sample |-> job[w].sample, length |-> 1]
    OBVIOUS
  <2>2. /\ new \in Streaks /\ new.sample = job[w].sample
        /\ streak[w].sample = job[w].sample => new = [sample |-> job[w].sample, length |-> 2]
    BY <1>2, <2>1 DEF Streaks
  <2>3. streak' = [streak EXCEPT ![w] = new]
    BY <1>1, <1>4, <2>1 DEF Counted
  <2> QED BY <1>2, <1>4, <2>2, <2>3
<1> QED BY <1>3, <1>4

LEMMA StoreKeepsEpochs ==
    ASSUME IInv, EpochInv, NEW w \in Watch, NEW accepted, Store(w, accepted)
    PROVE  EpochInv'
<1>1. PICK c : /\ Done(w, c) /\ c \in Runtimes
               /\ c.known = job[w].copy.known /\ c.active = job[w].copy.active
               /\ c.epoch = job[w].copy.epoch
               /\ (w \in Debounced /\ job[w].copy.epoch = row[w].epoch) =>
                      c.candidate.sample \in {None, job[w].sample}
  BY StoreLeaves DEF Leaves
<1>2. PICK old : old = job[w]
  OBVIOUS
<1>3. /\ UNCHANGED <<runtime, fresh, file>> /\ old.at = "read"
      /\ row' = row \/ \E sample : row' = [row EXCEPT ![w].checkpoint = sample]
  BY <1>2 DEF Store, Commit, durable, outside
<1>4. /\ \A v \in Watch \ {w} : row'[v] = row[v]
      /\ row'[w].mode = row[w].mode /\ row'[w].epoch = row[w].epoch
  BY <1>3 DEF IInv, DurableOK
<1>5. old.copy \in Runtimes /\ Fits(old.copy, w) /\ old.copy.active
  BY <1>2, <1>3 DEF EpochInv, WatchOK, Together, JobFits, Fits
<1>6. PICK j : j = [NoJob EXCEPT !.at = "done", !.copy = c]
  OBVIOUS
<1>7. j \in Jobs /\ j.at = "done" /\ j.copy = c
  BY <1>1, <1>6, EndedJob
<1>8. Becomes(w, j)
  BY <1>1, <1>6 DEF Done, EpochInv, Domains, Becomes
<1>9. Fits(c, w)'
  BY <1>1, <1>2, <1>4, <1>5 DEF Fits
<1>10. Recent(c, w)'
  BY <1>1, <1>2, <1>4, StoreCounts DEF Recent
<1>11. JobFits(j, w)'
  BY <1>1, <1>2, <1>5, <1>7, <1>9, <1>10 DEF JobFits
<1>12. \/ streak'[w] = streak[w] /\ job[w].at # "done"
       \/ j.at = "done" /\ j.copy.epoch = row[w].epoch
  BY <1>1, <1>2, <1>3, <1>7, StoreCounts
<1> QED BY <1>3, <1>4, <1>8, <1>11, <1>12, StoreCounts, JobMoves

LEMMA ProcessKeepsEpochs ==
    ASSUME IInv, EpochInv, Die \/ Start \/ UNCHANGED vars
    PROVE  EpochInv'
<1>1. CASE Die
  <2>1. /\ runtime' = [w \in Watch |-> NoRuntime] /\ job' = [w \in Watch |-> NoJob]
        /\ UNCHANGED <<row, streak, fresh, file>>
    BY <1>1 DEF Die, durable
  <2>2. ASSUME NEW w \in Watch PROVE WatchOK(w)'
    <3>1. Fits(NoRuntime, w) /\ Recent(NoRuntime, w) /\ JobFits(NoJob, w)
      BY NothingFits DEF IInv, DurableOK
    <3>2. Together(NoRuntime, NoJob, w) /\ Outside(w)
      BY <2>1, <3>1 DEF Together, Outside
    <3>3. Together(NoRuntime, NoJob, w)'
      BY <3>2, TogetherMoves
    <3> QED BY <2>1, <3>3 DEF EpochInv, WatchOK, Together, Fits, JobFits, Recent
  <2> QED BY <2>1, <2>2 DEF EpochInv, Domains
<1>2. CASE Start \/ UNCHANGED vars
  <2>1. UNCHANGED <<row, runtime, job, streak, fresh, file>>
    BY <1>2 DEF Start, vars, durable, memory, outside, history
  <2>2. \A w \in Watch : Bystander(w)
    BY <2>1 DEF Bystander, Outside
  <2>3. Domains'
    BY <2>1 DEF EpochInv, Domains
  <2> QED BY <2>2, <2>3, BystanderKeeps DEF EpochInv
<1> QED BY <1>1, <1>2

\* Runtimes, jobs and their candidates agree with the epochs of the rows in
\* every state, whatever is paused, resumed or removed while they are away.
THEOREM EpochsAgree == Spec => []EpochInv
<1>1. Init => EpochInv
  <2> SUFFICES ASSUME Init PROVE EpochInv
    OBVIOUS
  <2>1. ASSUME NEW w \in Watch PROVE WatchOK(w)
    <3>1. /\ row[w].epoch \in Nat /\ row[w].mode = "none" /\ streak[w] = NoStreak
          /\ runtime[w] = NoRuntime /\ job[w] = NoJob
      BY DEF Init, NoRow
    <3>2. Fits(NoRuntime, w) /\ Recent(NoRuntime, w) /\ JobFits(NoJob, w)
      BY <3>1, NothingFits
    <3> QED BY <3>1, <3>2, NoneOfTypes DEF WatchOK, Together
  <2> QED BY <2>1 DEF Init, EpochInv, Domains
<1>2. IInv /\ EpochInv /\ [Next]_vars => EpochInv'
  BY CommandKeepsEpochs, ChangeKeepsEpochs, SampleKeepsEpochs, StoreKeepsEpochs, FinishKeepsEpochs,
     TimeKeepsEpochs, DispatcherKeepsEpochs, ProcessKeepsEpochs DEF Next, Work
<1> QED BY <1>1, <1>2, Invariant, PTL DEF Spec

-----------------------------------------------------------------------------
(* Reports.                                                                *)

\* Only the end of a job reports, and only while its epoch is the row's.
LEMMA Reporting ==
    ASSUME IInv, EpochInv, [Next]_vars, NEW w \in Watch, reported'[w] # reported[w]
    PROVE  /\ \E accepted : Store(w, accepted)
           /\ job[w].at = "read" /\ job[w].copy.epoch = row[w].epoch
           /\ row'[w].checkpoint = job[w].sample
           /\ w \in Debounced => /\ job[w].copy.candidate.sample = job[w].sample
                                 /\ job[w].copy.candidate.epoch = job[w].copy.epoch
<1>1. PICK v \in Watch, accepted \in BOOLEAN : Store(v, accepted) /\ reported' # reported
  <2>1. CASE Dispatcher \/ Die \/ Start \/ UNCHANGED vars
    BY <2>1 DEF Dispatcher, Reload, Receive, Timer, Die, Start, vars, durable
  <2>2. ASSUME NEW v \in Watch,
               \/ watch_create(v) \/ \E mode \in Mode : watch_action(v, mode)
               \/ \E content \in Content : Change(v, content)
               \/ Sample(v) \/ SampleUnreadable(v) \/ SampleFails(v) \/ Finish(v)
               \/ IntervalElapses(v) \/ DebounceElapses(v)
        PROVE  UNCHANGED reported
    BY <2>2 DEF watch_create, watch_action, Change, Sample, SampleUnreadable, SampleFails, Finish,
                IntervalElapses, DebounceElapses, durable
  <2> QED BY <2>1, <2>2 DEF Next, Work
<1>2. /\ job[v].at = "read" /\ Commit(v, job[v].copy.epoch, job[v].sample, accepted)
      /\ v \in Debounced => /\ job[v].copy.candidate.sample = job[v].sample
                            /\ job[v].copy.candidate.epoch = job[v].copy.epoch
  BY <1>1 DEF Store, durable
<1>3. /\ row[v].epoch = job[v].copy.epoch
      /\ row' = [row EXCEPT ![v].checkpoint = job[v].sample]
      /\ \E e : reported' = [reported EXCEPT ![v] = e]
  BY <1>1, <1>2 DEF Commit, MayCommit, durable
<1>4. v = w
  BY <1>3 DEF IInv, DurableOK
<1>5. row'[w].checkpoint = job[w].sample
  BY <1>3, <1>4 DEF IInv, DurableOK
<1> QED BY <1>1, <1>2, <1>3, <1>4, <1>5

\* No sample from before a pause, and none that the file did not have since, is
\* reported, however long the sample took and whatever happened meanwhile.
THEOREM ReportsAreOfThisEpoch == Spec => ReportedSinceResume
<1>1. IInv /\ EpochInv /\ [Next]_vars =>
        [\A w \in Watch : reported'[w] # reported[w] =>
           \E content \in fresh[w] : Observes[w][content] = row'[w].checkpoint]_vars
  <2> SUFFICES ASSUME IInv, EpochInv, [Next]_vars, NEW w \in Watch, reported'[w] # reported[w]
               PROVE  \E content \in fresh[w] : Observes[w][content] = row'[w].checkpoint
    OBVIOUS
  <2> QED BY Reporting DEF EpochInv, WatchOK, Together, JobFits
<1> QED BY <1>1, Invariant, EpochsAgree, PTL DEF Spec, ReportedSinceResume

\* A debounced watch reports nothing that only one of its last two samples saw,
\* over jobs whose copy of the runtime was dropped, deaths and new epochs.
THEOREM DebounceHolds == Spec => DebouncedIsSeenTwice
<1>1. IInv /\ EpochInv /\ [Next]_vars =>
        [\A w \in Debounced : reported'[w] # reported[w] =>
           streak'[w] = [sample |-> row'[w].checkpoint, length |-> 2]]_vars
  <2> SUFFICES ASSUME IInv, EpochInv, [Next]_vars, NEW w \in Debounced, reported'[w] # reported[w]
               PROVE  streak'[w] = [sample |-> row'[w].checkpoint, length |-> 2]
    OBVIOUS
  <2>1. w \in Watch
    BY CollectorConstants
  <2>2. /\ \E accepted : Store(w, accepted)
        /\ job[w].at = "read" /\ job[w].copy.epoch = row[w].epoch
        /\ row'[w].checkpoint = job[w].sample
        /\ job[w].copy.candidate.sample = job[w].sample
        /\ job[w].copy.candidate.epoch = job[w].copy.epoch
    BY <2>1, Reporting
  <2>3. job[w].sample # None
    BY <2>1, <2>2, NoneIsNoSample DEF IInv, JobsOK, JobOK
  <2>4. streak[w].sample = job[w].sample
    BY <2>1, <2>2, <2>3 DEF EpochInv, WatchOK, Together, JobFits, Recent
  <2> QED BY <2>1, <2>2, <2>4, StoreCounts
<1> QED BY <1>1, Invariant, EpochsAgree, PTL DEF Spec, DebouncedIsSeenTwice

-----------------------------------------------------------------------------
(* Functions defined by recursion over 0..N.                               *)

\* A set that holds with each number the next one holds all of them.
LEMMA CountedUp ==
    ASSUME NEW N \in Nat, NEW G, 0 \in G, \A n \in 1..N : n - 1 \in G => n \in G
    PROVE  0..N \subseteq G
<1> SUFFICES ASSUME NEW m \in 0..N, m \notin G PROVE FALSE
  OBVIOUS
<1> DEFINE bad == {k \in 0..N : k \notin G}
           T == {0..n : n \in bad}
           R == StrictSubsetOrdering(0..N)
<1>1. IsFiniteSet(0..N)
  BY FS_Interval
<1>2. IsWellFoundedOn(R, SUBSET (0..N))
  <2>1. FiniteSubsetsOf(0..N) = SUBSET (0..N)
    BY <1>1, FS_FiniteSubsetsOfFinite
  <2> QED BY <2>1, FS_StrictSubsetOrderingWellFounded
<1>3. T \subseteq SUBSET (0..N) /\ T # {}
  OBVIOUS
<1> HIDE DEF R
<1>4. PICK x \in T : \A y \in T : ~ (<<y, x>> \in R)
  <2> HIDE DEF T
  <2> QED BY <1>2, <1>3, WFMin
<1>5. PICK n \in bad : x = 0..n
  BY <1>4
<1>6. n \in 1..N /\ n - 1 \notin G
  OBVIOUS
<1>7. 0..(n - 1) \in T
  BY <1>6
<1>8. 0..(n - 1) \subseteq 0..n /\ 0..(n - 1) # 0..n
  <2>1. n \in 0..n /\ n \notin 0..(n - 1)
    BY <1>6
  <2> QED BY <1>6, <2>1
<1>9. <<0..(n - 1), x>> \in R
  BY <1>3, <1>5, <1>6, <1>7, <1>8 DEF R, StrictSubsetOrdering
<1> QED BY <1>4, <1>7, <1>9

\* A function that begins with base and takes a step to each next value.
Steps(f, N, S, base, step) ==
    f \in [0..N -> S] /\ f[0] = base /\ \A n \in 1..N : f[n] = step[n][f[n - 1]]

LEMMA StepsExist ==
    ASSUME NEW N \in Nat, NEW S, NEW base \in S, NEW step \in [1..N -> [S -> S]]
    PROVE  \E f : Steps(f, N, S, base, step)
<1> DEFINE Good(f, m) == f[0] = base /\ \A n \in 1..m : f[n] = step[n][f[n - 1]]
           G == {m \in 0..N : \E f \in [0..m -> S] : Good(f, m)}
<1>1. 0 \in G
  <2>1. PICK f : f = [n \in 0..0 |-> base]
    OBVIOUS
  <2>2. f \in [0..0 -> S] /\ f[0] = base
    BY <2>1
  <2> QED BY <2>2
<1>2. ASSUME NEW m \in 1..N, m - 1 \in G PROVE m \in G
  <2>1. PICK f \in [0..(m - 1) -> S] : Good(f, m - 1)
    BY <1>2
  <2>2. f[m - 1] \in S /\ step[m] \in [S -> S]
    BY <2>1
  <2>3. PICK last \in S : last = step[m][f[m - 1]]
    BY <2>2
  <2>4. PICK g : g = [n \in 0..m |-> IF n = m THEN last ELSE f[n]]
    OBVIOUS
  <2>5. g \in [0..m -> S] /\ g[m] = last /\ \A n \in 0..(m - 1) : g[n] = f[n]
    BY <2>1, <2>4
  <2>6. Good(g, m)
    BY <2>1, <2>3, <2>5
  <2> QED BY <2>5, <2>6
<1>3. N \in G
  <2> HIDE DEF G
  <2>1. \A m \in 1..N : m - 1 \in G => m \in G
    BY <1>2
  <2>2. 0..N \subseteq G
    BY <1>1, <2>1, CountedUp, Zenon
  <2> QED BY <2>2
<1> QED BY <1>3 DEF Steps

-----------------------------------------------------------------------------
(* Registrations.                                                          *)

Directories(w) == {DirOf[w], Target[w]}

\* Registrations of these types; a watch's second directory is the one its path really names.
Fitting ==
    {reg \in [registered : [Dir -> Nat], subscribed : SUBSET Dir, alias : [Watch -> Dir \cup {None}]] :
        \A w \in Watch : reg.alias[w] \in {None, Target[w]}}

\* Of the directories and their users, only those of w change.
OnlyOf(w, reg, new) ==
    /\ new \in Fitting
    /\ \A v \in Watch \ {w} : new.alias[v] = reg.alias[v]
    /\ \A d \in Dir \ Directories(w) : d \in new.subscribed <=> d \in reg.subscribed

Fewer(reg, new) == \A w \in Watch : new.alias[w] \in {None, reg.alias[w]}

LEMMA Places == ASSUME NEW w \in Watch
                PROVE  DirOf[w] \in Dir /\ Target[w] \in Dir /\ None \notin Dir /\ Directories(w) \subseteq Dir
  BY CollectorConstants DEF Directories

LEMMA OnlyOfAgain ==
    ASSUME NEW w \in Watch, NEW a, NEW b, NEW c, OnlyOf(w, a, b), OnlyOf(w, b, c)
    PROVE  OnlyOf(w, a, c)
  BY DEF OnlyOf

LEMMA FewerAgain ==
    ASSUME NEW a, NEW b, NEW c, Fewer(a, b), Fewer(b, c) PROVE Fewer(a, c)
  BY DEF Fewer

LEMMA NothingChanges ==
    ASSUME NEW w \in Watch, NEW reg \in Fitting PROVE OnlyOf(w, reg, reg) /\ Fewer(reg, reg)
  BY DEF OnlyOf, Fewer

LEMMA ReleaseIsOf ==
    ASSUME NEW w \in Watch, NEW reg \in Fitting, NEW d \in Directories(w)
    PROVE  OnlyOf(w, reg, Release(reg, d)) /\ Release(reg, d).alias = reg.alias
<1>1. d \in Dir
  BY Places
<1>2. CASE reg.registered[d] = 0
  BY <1>2, NothingChanges DEF Release
<1>3. CASE reg.registered[d] # 0
  <2>1. PICK count \in Nat : count = reg.registered[d] - 1
    BY <1>1, <1>3 DEF Fitting
  <2>2. PICK counts \in [Dir -> Nat] : counts = [reg.registered EXCEPT ![d] = count]
    BY <1>1 DEF Fitting
  <2>3. PICK subs \in SUBSET Dir :
          /\ subs = IF reg.registered[d] = 1 THEN reg.subscribed \ {d} ELSE reg.subscribed
    BY DEF Fitting
  <2>4. Release(reg, d) = [reg EXCEPT !.registered = counts, !.subscribed = subs]
    BY <1>3, <2>1, <2>2, <2>3 DEF Release, Fitting
  <2>5. PICK new : new = Release(reg, d)
    OBVIOUS
  <2>6. new \in Fitting /\ new.alias = reg.alias /\ new.subscribed = subs
    BY <2>4, <2>5 DEF Fitting
  <2> QED BY <2>3, <2>5, <2>6 DEF OnlyOf
<1> QED BY <1>2, <1>3

LEMMA ReleaseAliasIsOf ==
    ASSUME NEW w \in Watch, NEW reg \in Fitting
    PROVE  /\ OnlyOf(w, reg, ReleaseAlias(reg, w)) /\ Fewer(reg, ReleaseAlias(reg, w))
           /\ ReleaseAlias(reg, w).alias[w] = None
           /\ reg.alias[w] = None => ReleaseAlias(reg, w) = reg
<1>1. CASE reg.alias[w] = None
  BY <1>1, NothingChanges DEF ReleaseAlias
<1>2. CASE reg.alias[w] # None
  <2>1. reg.alias[w] \in Directories(w)
    BY <1>2 DEF Fitting, Directories
  <2>2. PICK mid : mid = Release(reg, reg.alias[w])
    OBVIOUS
  <2>3. OnlyOf(w, reg, mid) /\ mid.alias = reg.alias /\ mid \in Fitting
    BY <2>1, <2>2, ReleaseIsOf DEF OnlyOf
  <2>4. PICK new : new = [mid EXCEPT !.alias[w] = None]
    OBVIOUS
  <2>5. new = [mid EXCEPT !.alias = [mid.alias EXCEPT ![w] = None]]
    BY <2>4
  <2>6. PICK aliases \in [Watch -> Dir \cup {None}] : aliases = [mid.alias EXCEPT ![w] = None]
    BY <2>3 DEF Fitting
  <2>7. aliases[w] = None /\ \A v \in Watch \ {w} : aliases[v] = reg.alias[v]
    BY <2>3, <2>6 DEF Fitting
  <2>8. new \in Fitting /\ new.alias = aliases /\ new.subscribed = mid.subscribed
    BY <2>3, <2>5, <2>6, <2>7 DEF Fitting
  <2>9. OnlyOf(w, reg, new) /\ Fewer(reg, new)
    BY <2>3, <2>7, <2>8 DEF OnlyOf, Fewer
  <2> QED BY <1>2, <2>2, <2>4, <2>7, <2>8, <2>9 DEF ReleaseAlias
<1> QED BY <1>1, <1>2

LEMMA RegisterIsOf ==
    ASSUME NEW w \in Watch, NEW reg \in Fitting, NEW d \in Directories(w), NEW refused
    PROVE  OnlyOf(w, reg, Register(reg, d, refused)) /\ Register(reg, d, refused).alias = reg.alias
<1>1. d \in Dir
  BY Places
<1>2. CASE Register(reg, d, refused) = reg
  BY <1>2, NothingChanges
<1>3. CASE Register(reg, d, refused) = [reg EXCEPT !.registered[d] = @ + 1, !.subscribed = @ \cup {d}]
  <2>0. PICK count \in Nat : count = reg.registered[d] + 1
    BY <1>1 DEF Fitting
  <2>1. PICK counts \in [Dir -> Nat] : counts = [reg.registered EXCEPT ![d] = count]
    BY <1>1 DEF Fitting
  <2>2. PICK subs \in SUBSET Dir : subs = reg.subscribed \cup {d}
    BY <1>1 DEF Fitting
  <2>3. PICK new : new = Register(reg, d, refused)
    OBVIOUS
  <2>4. new = [reg EXCEPT !.registered = counts, !.subscribed = subs]
    BY <1>3, <2>0, <2>1, <2>2, <2>3 DEF Fitting
  <2>5. new \in Fitting /\ new.alias = reg.alias /\ new.subscribed = subs
    BY <2>4 DEF Fitting
  <2> QED BY <2>2, <2>3, <2>5 DEF OnlyOf
<1> QED BY <1>2, <1>3 DEF Register

\* A reload changes of each watch only its own registrations, and adds no alias.
LEMMA RecountedIsOf ==
    ASSUME NEW w \in Watch, NEW reg \in Fitting, NEW refused
    PROVE  /\ OnlyOf(w, reg, Recounted(reg, w, refused)) /\ Fewer(reg, Recounted(reg, w, refused))
           /\ (w \in Listed /\ IsActive(w) /\ WasActive(w)) => Recounted(reg, w, refused) = reg
<1> DEFINE released == IF runtime[w].known /\ WasActive(w) # IsActive(w)
                       THEN Release(reg, DirOf[w]) ELSE reg
           freed == IF IsActive(w) THEN released ELSE ReleaseAlias(released, w)
           last == IF IsActive(w) /\ ~WasActive(w) THEN Register(freed, DirOf[w], w \in refused) ELSE freed
<1>1. DirOf[w] \in Directories(w)
  BY DEF Directories
<1>2. OnlyOf(w, reg, released) /\ Fewer(reg, released)
  BY <1>1, ReleaseIsOf, NothingChanges DEF Fewer
<1> HIDE DEF released
<1>3. OnlyOf(w, reg, freed) /\ Fewer(reg, freed)
  <2>1. released \in Fitting
    BY <1>2 DEF OnlyOf
  <2> QED BY <1>2, <2>1, ReleaseAliasIsOf, OnlyOfAgain, FewerAgain
<1> HIDE DEF freed
<1>4. OnlyOf(w, reg, last) /\ Fewer(reg, last)
  <2>1. freed \in Fitting
    BY <1>3 DEF OnlyOf
  <2>2. PICK r : r = (w \in refused)
    OBVIOUS
  <2>3. last = freed \/ last = Register(freed, DirOf[w], r)
    BY <2>2
  <2>4. OnlyOf(w, freed, last) /\ Fewer(freed, last)
    BY <1>1, <2>1, <2>3, RegisterIsOf, NothingChanges DEF Fewer
  <2> QED BY <1>3, <2>4, OnlyOfAgain, FewerAgain
<1>5. Recounted(reg, w, refused) = IF w \notin Listed THEN reg ELSE last
  BY DEF Recounted, released, freed, last
<1>6. (w \in Listed /\ IsActive(w) /\ WasActive(w)) => last = reg
  BY DEF released, freed
<1> HIDE DEF last
<1> QED BY <1>4, <1>5, <1>6, NothingChanges

LEMMA ForgetIsOf ==
    ASSUME NEW w \in Watch, NEW reg \in Fitting
    PROVE  /\ OnlyOf(w, reg, Forget(reg, w)) /\ Fewer(reg, Forget(reg, w))
           /\ w \in Listed => Forget(reg, w) = reg
           /\ (w \notin Listed /\ runtime[w].known) => Forget(reg, w).alias[w] = None
<1>1. CASE w \in Listed \/ ~runtime[w].known
  BY <1>1, NothingChanges DEF Forget
<1>2. CASE ~(w \in Listed \/ ~runtime[w].known)
  <2>1. PICK mid : mid = IF WasActive(w) THEN Release(reg, DirOf[w]) ELSE reg
    OBVIOUS
  <2>2. OnlyOf(w, reg, mid) /\ Fewer(reg, mid) /\ mid \in Fitting
    BY <2>1, ReleaseIsOf, NothingChanges DEF Fewer, Directories, OnlyOf
  <2>3. Forget(reg, w) = ReleaseAlias(mid, w)
    BY <1>2, <2>1 DEF Forget
  <2> QED BY <1>2, <2>2, <2>3, ReleaseAliasIsOf, OnlyOfAgain, FewerAgain
<1> QED BY <1>1, <1>2

\* What the registrations satisfy before a reload, and keep over each watch of
\* its list, they satisfy after it.
LEMMA ReloadKeeps ==
    ASSUME NEW S, NEW refused, Registry \in S,
           \A reg \in S, w \in Watch : Recounted(reg, w, refused) \in S /\ Forget(reg, w) \in S
    PROVE  Reregistered(refused) \in S
<1> DEFINE count == Len(ListOrder)
           N == 2 * count
           Next1(reg, n) == IF n <= count THEN Recounted(reg, ListOrder[n], refused)
                            ELSE Forget(reg, ListOrder[n - count])
           step == [n \in 1..N |-> [reg \in S |-> Next1(reg, n)]]
           Defines(f) == f = [n \in 0..N |->
               IF n = 0 THEN Registry
               ELSE IF n <= count THEN Recounted(f[n - 1], ListOrder[n], refused)
               ELSE Forget(f[n - 1], ListOrder[n - count])]
           after == CHOOSE f : Defines(f)
<1>1. count \in Nat /\ N \in Nat /\ \A n \in 1..count : ListOrder[n] \in Watch
  BY CollectorConstants
<1>2. \A reg \in S, n \in 1..N : Next1(reg, n) \in S
  <2> SUFFICES ASSUME NEW reg \in S, NEW n \in 1..N PROVE Next1(reg, n) \in S
    OBVIOUS
  <2>1. CASE n <= count
    BY <1>1, <2>1
  <2>2. CASE ~(n <= count)
    <3>1. n - count \in 1..count
      BY <1>1, <2>2
    <3> QED BY <1>1, <2>2, <3>1
  <2> QED BY <2>1, <2>2
<1> HIDE DEF Next1
<1>3. step \in [1..N -> [S -> S]]
  BY <1>2
<1>4. \A reg \in S, n \in 1..N : step[n][reg] = Next1(reg, n)
  OBVIOUS
<1> HIDE DEF step, N, count
<1>5. PICK g : Steps(g, N, S, Registry, step)
  BY <1>1, <1>3, StepsExist, Zenon
<1>6. g \in [0..N -> S] /\ g[0] = Registry /\ \A n \in 1..N : g[n] = step[n][g[n - 1]]
  BY <1>5 DEF Steps
<1>7. \A n \in 1..N : g[n] = Next1(g[n - 1], n)
  <2> SUFFICES ASSUME NEW n \in 1..N PROVE g[n] = Next1(g[n - 1], n)
    OBVIOUS
  <2>1. g[n - 1] \in S
    BY <1>1, <1>6
  <2> QED BY <1>4, <1>6, <2>1
<1>8. g = [n \in 0..N |-> IF n = 0 THEN Registry ELSE Next1(g[n - 1], n)]
  BY <1>1, <1>6, <1>7
<1>9. Defines(g)
  BY <1>8, Zenon DEF Next1
<1>10. Defines(after)
  <2> HIDE DEF Defines
  <2> QED BY <1>9, Zenon
<1>11. after = [n \in 0..N |-> IF n = 0 THEN Registry ELSE Next1(after[n - 1], n)]
  BY <1>10, Zenon DEF Next1
<1>12. Reregistered(refused) = after[N]
  BY Zenon DEF Reregistered, N, count
<1> HIDE DEF after, Defines
<1> DEFINE G == {n \in 0..N : after[n] \in S}
<1>13. 0 \in G
  BY <1>1, <1>11
<1>14. \A n \in 1..N : n - 1 \in G => n \in G
  BY <1>1, <1>2, <1>11
<1>15. N \in G
  <2> HIDE DEF G
  <2> QED BY <1>1, <1>13, <1>14, CountedUp
<1> QED BY <1>12, <1>15

-----------------------------------------------------------------------------
(* The invariant.                                                          *)

NativeOK ==
    /\ running \in BOOLEAN
    /\ registered \in [Dir -> Nat] /\ subscribed \subseteq Dir
    /\ alias \in [Watch -> Dir \cup {None}]
    /\ queue \in Seq(Watch \X Dir) /\ Len(queue) <= QueueCapacity
    /\ overflow \in BOOLEAN

OutsideOK ==
    /\ changes \in [Watch -> Nat] /\ crashes \in 0..MaxCrashes
    /\ fresh \in [Watch -> SUBSET Content]
    /\ unread \in [Watch -> BOOLEAN]

\* The second directory registered for a watch is the one its path really names,
\* which its runtime, and a job begun with that runtime, know.
PathOK(w) ==
    /\ runtime[w].path \in {None, Target[w]}
    /\ job[w].copy.path \in {None, Target[w]}
    /\ alias[w] \in {None, Target[w]}
    /\ ~runtime[w].known => runtime[w].path = None
    /\ alias[w] # None => \/ runtime[w].path = Target[w]
                          \/ row[w].mode = "removed" /\ ~runtime[w].known
    /\ (job[w].at # "none" /\ runtime[w].path # None) => job[w].copy.path # None
    /\ (job[w].at # "none" /\ runtime[w].known /\ runtime[w].epoch = job[w].copy.epoch) =>
           runtime[w].active

PathsOK == \A w \in Watch : PathOK(w)

Noticed(w) ==
    \/ overflow \/ runtime[w].dirty
    \/ \E n \in 1..Len(queue) : Matches(runtime[w], w, queue[n])
    \/ job[w].at = "reading"

LEMMA NoticedIs == ChangeIsNoticed <=> \A w \in Watch : (unread[w] /\ Followed(w)) => Noticed(w)
  BY DEF ChangeIsNoticed, Noticed

Aside == IInv /\ EpochInv
NInv == NativeOK /\ OutsideOK /\ PathsOK /\ ChangeIsNoticed

LEMMA RegistryFits == ASSUME NativeOK, PathsOK PROVE Registry \in Fitting
  BY DEF NativeOK, PathsOK, PathOK, Registry, Fitting

LEMMA NothingQueued == << >> \in Seq(Watch \X Dir) /\ Len(<< >>) <= QueueCapacity
<1>1. PICK T : T = Watch \X Dir
  OBVIOUS
<1>2. << >> \in Seq(T) /\ Len(<< >>) = 0 /\ 0 <= QueueCapacity
  BY CollectorConstants
<1> QED BY <1>1, <1>2

\* What the runtimes and jobs are.
LEMMA TypesOf ==
    ASSUME EpochInv, NEW w \in Watch
    PROVE  /\ runtime[w] \in Runtimes /\ job[w] \in Jobs /\ job[w].copy \in Runtimes
           /\ runtime[w].active => runtime[w].known
           /\ runtime[w].known => row[w].mode # "none"
  BY DEF EpochInv, WatchOK, Together, Fits, JobFits, Jobs

-----------------------------------------------------------------------------
(* A turn.                                                                 *)

\* The runtimes are marked, and copied to the jobs that begin: the directory stays,
\* and what is dirty is dirty or being read.
Leads(runtimes, jobs, w) ==
    /\ runtime'[w].path = runtimes[w].path /\ runtime'[w].active = runtimes[w].active
    /\ runtime'[w].known = runtimes[w].known /\ runtime'[w].epoch = runtimes[w].epoch
    /\ \/ job'[w] = jobs[w]
       \/ /\ jobs[w].at = "none" /\ job'[w].at = "reading" /\ job'[w].copy = runtime'[w]
          /\ runtimes[w].active
    /\ (runtimes[w].dirty \/ (overflow /\ runtimes[w].active) \/ jobs[w].at = "reading") =>
           runtime'[w].dirty \/ job'[w].at = "reading"

LEMMA TurnLeads ==
    ASSUME NEW runtimes, NEW jobs, NEW w \in Watch, runtimes[w] \in Runtimes, Turn(runtimes, jobs)
    PROVE  overflow' = FALSE /\ Leads(runtimes, jobs, w)
<1> DEFINE swept == [v \in Watch |-> IF overflow /\ runtimes[v].active
                                     THEN [runtimes[v] EXCEPT !.dirty = TRUE] ELSE runtimes[v]]
           begun(some) == [v \in Watch |-> IF v \in some
                                           THEN [swept[v] EXCEPT !.dirty = FALSE] ELSE swept[v]]
           start(some, v) == [at |-> "reading", sample |-> None,
                              ripe |-> begun(some)[v].candidate.ripe, copy |-> begun(some)[v]]
<1>1. PICK some \in Starts(swept, jobs) :
         /\ runtime' = begun(some)
         /\ job' = [v \in Watch |-> IF v \in some THEN start(some, v) ELSE jobs[v]]
  BY Zenon DEF Turn
<1>2. overflow' = FALSE
  BY DEF Turn
<1>3. PICK old \in Runtimes : old = runtimes[w]
  OBVIOUS
<1>4. PICK seen : seen = swept[w]
  OBVIOUS
<1>5. seen = IF overflow /\ old.active THEN [old EXCEPT !.dirty = TRUE] ELSE old
  BY <1>3, <1>4
<1>6. /\ seen \in Runtimes /\ seen.path = old.path /\ seen.active = old.active /\ seen.known = old.known
      /\ seen.epoch = old.epoch
      /\ old.dirty => seen.dirty
      /\ (overflow /\ old.active) => seen.dirty
  BY <1>3, <1>5 DEF Runtimes
<1>7. w \in some => jobs[w].at = "none" /\ seen.active
  <2>1. some \subseteq Ready(swept, jobs)
    BY DEF Starts
  <2> HIDE DEF swept
  <2> QED BY <1>4, <2>1 DEF Ready, InFlight
<1>8. runtime'[w] = IF w \in some THEN [seen EXCEPT !.dirty = FALSE] ELSE seen
  BY <1>1, <1>4
<1>9. job'[w] = IF w \in some THEN [at |-> "reading", sample |-> None,
                                    ripe |-> runtime'[w].candidate.ripe, copy |-> runtime'[w]]
                ELSE jobs[w]
  BY <1>1
<1> HIDE DEF swept, begun, start
<1>10. CASE w \notin some
  BY <1>2, <1>3, <1>6, <1>8, <1>9, <1>10 DEF Leads
<1>11. CASE w \in some
  <2>1. PICK new : new = runtime'[w]
    OBVIOUS
  <2>2. new.path = old.path /\ new.active = old.active /\ new.known = old.known
        /\ new.epoch = old.epoch
    BY <1>6, <1>8, <1>11, <2>1 DEF Runtimes
  <2>3. job'[w].at = "reading" /\ job'[w].copy = new
    BY <1>9, <1>11, <2>1
  <2> QED BY <1>2, <1>3, <1>6, <1>7, <1>11, <2>1, <2>2, <2>3 DEF Leads
<1> QED BY <1>10, <1>11

\* What a turn works on, and what it leaves of paths.
PathFits(r, j, a, w) ==
    /\ r.path \in {None, Target[w]} /\ j.copy.path \in {None, Target[w]}
    /\ a \in {None, Target[w]}
    /\ ~r.known => r.path = None
    /\ a # None => r.path = Target[w] \/ (row[w].mode = "removed" /\ ~r.known)
    /\ (j.at # "none" /\ r.path # None) => j.copy.path # None
    /\ (j.at # "none" /\ r.known /\ r.epoch = j.copy.epoch) => r.active

LEMMA TurnKeepsPaths ==
    ASSUME NEW runtimes, NEW jobs, Turn(runtimes, jobs), row' = row,
           \A w \in Watch : runtimes[w] \in Runtimes /\ PathFits(runtimes[w], jobs[w], alias'[w], w)
    PROVE  PathsOK'
<1> SUFFICES ASSUME NEW w \in Watch PROVE PathOK(w)'
  BY DEF PathsOK
<1>1. /\ runtime'[w].path = runtimes[w].path /\ runtime'[w].active = runtimes[w].active
      /\ runtime'[w].known = runtimes[w].known /\ runtime'[w].epoch = runtimes[w].epoch
      /\ \/ job'[w] = jobs[w]
         \/ /\ jobs[w].at = "none" /\ job'[w].at = "reading" /\ job'[w].copy = runtime'[w]
            /\ runtimes[w].active
  <2>1. runtimes[w] \in Runtimes
    OBVIOUS
  <2>2. Leads(runtimes, jobs, w)
    BY <2>1, TurnLeads
  <2> QED BY <2>2 DEF Leads
<1>2. PathFits(runtimes[w], jobs[w], alias'[w], w)
  OBVIOUS
<1> QED BY <1>1, <1>2 DEF PathFits, PathOK

\* If a turn works on runtimes that keep what is noticed, it stays noticed.
LEMMA TurnKeepsNoticed ==
    ASSUME NEW runtimes, NEW jobs, NEW w \in Watch, Turn(runtimes, jobs), runtimes[w] \in Runtimes,
           \/ runtimes[w].dirty
           \/ overflow /\ runtimes[w].active
           \/ jobs[w].at = "reading"
           \/ \E n \in 1..Len(queue') : Matches(runtimes[w], w, queue'[n])
    PROVE  Noticed(w)'
<1>1. CASE \E n \in 1..Len(queue') : Matches(runtimes[w], w, queue'[n])
  <2>1. runtime'[w].path = runtimes[w].path
    BY TurnLeads DEF Leads
  <2> QED BY <1>1, <2>1 DEF Noticed, Matches
<1>2. CASE ~(\E n \in 1..Len(queue') : Matches(runtimes[w], w, queue'[n]))
  <2>1. runtime'[w].dirty \/ job'[w].at = "reading"
    <3>1. Leads(runtimes, jobs, w)
      BY TurnLeads
    <3>2. runtimes[w].dirty \/ (overflow /\ runtimes[w].active) \/ jobs[w].at = "reading"
      BY <1>2, Zenon
    <3> QED BY <3>1, <3>2, Zenon DEF Leads
  <2> QED BY <2>1 DEF Noticed
<1> QED BY <1>1, <1>2

\* What a turn works on, for a watch whose directories are as before: nothing
\* that was noticed is lost.
Carries(r, j, w) ==
    /\ r \in Runtimes
    /\ r.active => runtime[w].active
    /\ runtime[w].dirty => r.dirty
    /\ runtime[w].path # None => r.path = runtime[w].path
    /\ job[w].at = "reading" => j.at = "reading"

LEMMA CarriedOver ==
    ASSUME EpochInv, NInv, NEW runtimes, NEW jobs, NEW w \in Watch, Turn(runtimes, jobs),
           Carries(runtimes[w], jobs[w], w), UNCHANGED <<queue, unread>>,
           unread'[w], Followed(w)',
           Target[w] \in subscribed, alias'[w] = alias[w]
    PROVE  Noticed(w)'
<1>1. Leads(runtimes, jobs, w)
  BY TurnLeads DEF Carries
<1>2. PICK r : r = runtimes[w]
  OBVIOUS
<1>3. runtime'[w].active /\ r.active /\ runtime[w].active
  BY <1>1, <1>2 DEF Leads, Carries, Followed
<1>4. Followed(w)
  BY <1>3 DEF Followed
<1>5. Noticed(w)
  BY <1>4, NoticedIs DEF NInv
<1>6. ASSUME NEW n \in 1..Len(queue), Matches(runtime[w], w, queue[n]) PROVE Matches(r, w, queue[n])
  <2>1. queue[n] \in Watch \X Dir /\ None \notin Dir
    BY Places DEF NInv, NativeOK
  <2>2. queue[n][2] = runtime[w].path => runtime[w].path # None
    BY <2>1
  <2>3. queue[n][2] \in {DirOf[w], runtime[w].path} => queue[n][2] \in {DirOf[w], r.path}
    BY <1>2, <2>2 DEF Carries
  <2> QED BY <1>6, <2>3 DEF Matches
<1>7. \/ overflow /\ r.active
      \/ r.dirty
      \/ jobs[w].at = "reading"
      \/ \E n \in 1..Len(queue) : Matches(r, w, queue[n])
  BY <1>2, <1>3, <1>5, <1>6 DEF Noticed, Carries
<1>8. runtimes[w] \in Runtimes
  BY DEF Carries
<1>9. queue' = queue
  OBVIOUS
<1>10. \/ runtimes[w].dirty
       \/ overflow /\ runtimes[w].active
       \/ jobs[w].at = "reading"
       \/ \E n \in 1..Len(queue') : Matches(runtimes[w], w, queue'[n])
  BY <1>2, <1>7, <1>9, Zenon
<1> QED BY <1>8, <1>10, TurnKeepsNoticed

\* The watch that a turn begins with as it was.
LEMMA AsBefore ==
    ASSUME EpochInv, NEW w \in Watch, NEW r, NEW j, r = runtime[w], j = job[w]
    PROVE  Carries(r, j, w)
  BY TypesOf DEF Carries

LEMMA PathFitsAsBefore ==
    ASSUME PathsOK, NEW w \in Watch
    PROVE  PathFits(runtime[w], job[w], alias[w], w) /\ PathFits(runtime[w], NoJob, alias[w], w)
  BY DEF PathsOK, PathOK, PathFits, NoJob, NoRuntime

\* A turn writes the overflow mark and what its branch says.
LEMMA TurnTypes ==
    ASSUME NEW runtimes, NEW jobs, Turn(runtimes, jobs), NEW reg \in Fitting,
           registered' = reg.registered, subscribed' = reg.subscribed, alias' = reg.alias,
           running' \in BOOLEAN, queue' \in Seq(Watch \X Dir), Len(queue') <= QueueCapacity
    PROVE  NativeOK'
<1>1. overflow' = FALSE
  BY DEF Turn
<1> QED BY <1>1 DEF NativeOK, Fitting

\* A finished job changes registrations of its own watch only; when it registers
\* a directory, its watch is dirty, so that a sample covers the time before.
LEMMA FinishKeepsNative ==
    ASSUME Aside, NInv, NEW w \in Watch, Finish(w)
    PROVE  NInv'
<1> DEFINE copy == job[w].copy
           joined == [job EXCEPT ![w] = NoJob]
           kept(new) == [runtime EXCEPT ![w] = Merged(runtime[w], new)]
<1>1. /\ IInv /\ EpochInv /\ NativeOK /\ OutsideOK /\ PathsOK /\ ChangeIsNoticed
      /\ Registry \in Fitting
  BY RegistryFits DEF Aside, NInv
<1>2. /\ job[w].at = "done" /\ UNCHANGED <<row, running, queue, changes, crashes, fresh, unread>>
  BY DEF Finish, durable, outside, history
<1>3. joined[w] = NoJob /\ \A v \in Watch \ {w} : joined[v] = job[v]
  BY <1>1 DEF EpochInv, Domains
<1>4. \A new : kept(new)[w] = Merged(runtime[w], new) /\ \A v \in Watch \ {w} : kept(new)[v] = runtime[v]
  BY <1>1 DEF EpochInv, Domains
<1>5. copy \in Runtimes /\ Fits(copy, w) /\ copy.active /\ copy.known /\ \A v \in Watch : runtime[v] \in Runtimes
  BY <1>1, <1>2, TypesOf DEF EpochInv, WatchOK, Together, JobFits, Fits
<1>6. OutsideOK'
  BY <1>1, <1>2 DEF OutsideOK
<1>7. PICK merged, caught : merged = Merged(runtime[w], copy) /\ caught = Merged(runtime[w], CaughtUp(copy))
  OBVIOUS
<1>8. /\ merged \in Runtimes /\ merged.path = copy.path /\ merged.active /\ merged.known
      /\ runtime[w].dirty => merged.dirty
  <2>1. PICK b \in BOOLEAN : b = (copy.dirty \/ runtime[w].dirty)
    OBVIOUS
  <2>2. merged = [copy EXCEPT !.dirty = b]
    BY <1>7, <2>1, Zenon DEF Merged
  <2>3. runtime[w].dirty => b
    BY <2>1, Zenon
  <2>4. merged.dirty = b
    BY <1>5, <2>2 DEF Runtimes
  <2>5. merged \in Runtimes /\ merged.path = copy.path /\ merged.active /\ merged.known
    BY <1>5, <2>2 DEF Runtimes
  <2> QED BY <2>3, <2>4, <2>5
<1>9. /\ caught \in Runtimes /\ caught.path = copy.path /\ caught.active /\ caught.known
      /\ caught.dirty
  <2>1. PICK c : c = [copy EXCEPT !.dirty = TRUE]
    OBVIOUS
  <2>2. c \in Runtimes /\ c.path = copy.path /\ c.active /\ c.known /\ c.dirty
    BY <1>5, <2>1 DEF Runtimes
  <2>3. PICK b \in BOOLEAN : b = (c.dirty \/ runtime[w].dirty)
    OBVIOUS
  <2>4. caught = [c EXCEPT !.dirty = b]
    BY <1>7, <2>1, <2>3, Zenon DEF Merged, CaughtUp
  <2>5. b
    BY <2>2, <2>3, Zenon
  <2> QED BY <2>2, <2>4, <2>5 DEF Runtimes
<1> HIDE DEF joined
\* The job of another epoch, or of a watch that is gone.
<1>10. ASSUME Turn(runtime, joined), UNCHANGED <<registered, subscribed, alias>>
       PROVE  NInv'
  <2>1. NativeOK'
    BY <1>1, <1>2, <1>10, TurnTypes DEF Registry, NativeOK
  <2>2. \A v \in Watch : PathFits(runtime[v], joined[v], alias'[v], v)
    BY <1>1, <1>3, <1>10, PathFitsAsBefore
  <2>3. PathsOK'
    BY <1>2, <1>5, <1>10, <2>2, TurnKeepsPaths
  <2>4. ASSUME NEW v \in Watch, unread'[v], Followed(v)' PROVE Noticed(v)'
    <3>1. Carries(runtime[v], joined[v], v)
      BY <1>1, <1>2, <1>3, AsBefore, TypesOf DEF Carries
    <3>2. Target[v] \in subscribed /\ alias'[v] = alias[v]
      BY <1>10, <2>4 DEF Followed
    <3> QED BY <1>1, <1>2, <1>10, <2>4, <3>1, <3>2, CarriedOver
  <2>5. ChangeIsNoticed'
    BY <2>4 DEF ChangeIsNoticed, Noticed
  <2> QED BY <1>6, <2>1, <2>3, <2>5 DEF NInv
\* The copy becomes the runtime; the registrations are as they were.
<1>11. (alias[w] # None /\ runtime[w].known) => copy.path = Target[w]
  BY <1>1, <1>2, Places DEF PathsOK, PathOK
<1>12. ASSUME runtime[w].known, runtime[w].epoch = copy.epoch,
              Turn(kept(copy), joined), UNCHANGED <<registered, subscribed, alias>>
       PROVE  NInv'
  <2>1. PICK runtimes : runtimes = kept(copy)
    OBVIOUS
  <2>2. runtimes[w] = merged /\ (\A v \in Watch \ {w} : runtimes[v] = runtime[v]) /\ Turn(runtimes, joined)
    BY <1>4, <1>7, <1>12, <2>1
  <2>3. NativeOK'
    BY <1>1, <1>2, <1>12, TurnTypes DEF Registry, NativeOK
  <2>4. runtime[w].active /\ PathOK(w)
    BY <1>1, <1>2, <1>12 DEF PathsOK, PathOK
  <2>5. PathFits(merged, NoJob, alias[w], w)
    BY <1>8, <1>11, <1>12, <2>4 DEF PathFits, PathOK, NoJob, NoRuntime
  <2>6. \A v \in Watch : runtimes[v] \in Runtimes /\ PathFits(runtimes[v], joined[v], alias'[v], v)
    BY <1>1, <1>3, <1>5, <1>8, <1>12, <2>2, <2>5, PathFitsAsBefore
  <2>7. PathsOK'
    BY <1>2, <2>2, <2>6, TurnKeepsPaths
  <2>8. ASSUME NEW v \in Watch, unread'[v], Followed(v)' PROVE Noticed(v)'
    <3>1. Target[v] \in subscribed /\ alias'[v] = alias[v]
      BY <1>12, <2>8 DEF Followed
    <3>2. CASE v # w
      <4>1. Carries(runtimes[v], joined[v], v)
        BY <1>1, <1>3, <2>2, <3>2, AsBefore
      <4> QED BY <1>1, <1>2, <2>2, <2>8, <3>1, <4>1, CarriedOver DEF NInv
    <3>3. CASE v = w
      <4>1. runtime[w].path # None => merged.path = runtime[w].path
        BY <1>2, <1>8, <2>4 DEF PathOK
      <4>2. Carries(merged, NoJob, w)
        BY <1>2, <1>8, <2>4, <4>1 DEF Carries
      <4>3. Carries(runtimes[v], joined[v], v)
        BY <1>3, <2>2, <3>3, <4>2
      <4> QED BY <1>1, <1>2, <2>2, <2>8, <3>1, <4>3, CarriedOver DEF NInv
    <3> QED BY <3>2, <3>3
  <2>9. ChangeIsNoticed'
    BY <2>8 DEF ChangeIsNoticed, Noticed
  <2> QED BY <1>6, <2>3, <2>7, <2>9 DEF NInv
\* A directory is registered: the watch is dirty.
<1>13. ASSUME NEW reg, OnlyOf(w, Registry, reg), runtime[w].known, runtime[w].epoch = copy.epoch,
              copy.path = Target[w],
              registered' = reg.registered, subscribed' = reg.subscribed,
              alias' = [alias EXCEPT ![w] = Target[w]], reg.alias = alias,
              Turn(kept(CaughtUp(copy)), joined)
       PROVE  NInv'
  <2>1. PICK runtimes : runtimes = kept(CaughtUp(copy))
    OBVIOUS
  <2>2. runtimes[w] = caught /\ (\A v \in Watch \ {w} : runtimes[v] = runtime[v]) /\ Turn(runtimes, joined)
    BY <1>4, <1>7, <1>13, <2>1
  <2>3. Target[w] \in Dir /\ Target[w] # None /\ DOMAIN alias = Watch
    BY <1>1, Places DEF NativeOK
  <2>4. alias'[w] = Target[w] /\ (\A v \in Watch \ {w} : alias'[v] = alias[v])
        /\ alias' \in [Watch -> Dir \cup {None}]
    BY <1>1, <1>13, <2>3 DEF NativeOK
  <2>5. overflow' = FALSE
    BY <1>13 DEF Turn
  <2>6. NativeOK'
    BY <1>1, <1>2, <1>13, <2>4, <2>5 DEF NativeOK, OnlyOf, Fitting
  <2>7. runtime[w].active /\ PathOK(w)
    BY <1>1, <1>2, <1>13 DEF PathsOK, PathOK
  <2>8. PathFits(caught, NoJob, Target[w], w)
    BY <1>9, <1>13, <2>3, <2>7 DEF PathFits, PathOK, NoJob, NoRuntime
  <2>9. \A v \in Watch : runtimes[v] \in Runtimes /\ PathFits(runtimes[v], joined[v], alias'[v], v)
    BY <1>1, <1>3, <1>5, <1>9, <2>2, <2>4, <2>8, PathFitsAsBefore
  <2>10. PathsOK'
    BY <1>2, <2>2, <2>9, TurnKeepsPaths
  <2>11. ASSUME NEW v \in Watch, unread'[v], Followed(v)' PROVE Noticed(v)'
    <3>1. CASE v # w
      <4>1. Carries(runtimes[v], joined[v], v)
        BY <1>1, <1>3, <2>2, <3>1, AsBefore
      <4>2. alias'[v] = alias[v]
        BY <2>4, <3>1
      <4>3. Target[v] \in Dir \ Directories(w) /\ Target[v] \in subscribed'
        BY <2>11, <3>1, Places DEF Followed, Directories
      <4>4. Target[v] \in subscribed
        BY <1>13, <4>3 DEF OnlyOf, Registry
      <4> QED BY <1>1, <1>2, <2>2, <2>11, <4>1, <4>2, <4>4, CarriedOver DEF NInv
    <3>2. CASE v = w
      BY <1>9, <2>2, <3>2, TurnKeepsNoticed
    <3> QED BY <3>1, <3>2
  <2>12. ChangeIsNoticed'
    BY <2>11 DEF ChangeIsNoticed, Noticed
  <2> QED BY <1>6, <2>6, <2>10, <2>12 DEF NInv
<1>14. CASE ~runtime[w].known \/ runtime[w].epoch # copy.epoch
  BY <1>10, <1>14 DEF Finish, joined
<1>15. CASE runtime[w].known /\ runtime[w].epoch = copy.epoch
            /\ ~(copy.path # None /\ copy.path # DirOf[w] /\ alias[w] # copy.path)
  BY <1>12, <1>15 DEF Finish, joined
<1>16. CASE runtime[w].known /\ runtime[w].epoch = copy.epoch
            /\ copy.path # None /\ copy.path # DirOf[w] /\ alias[w] # copy.path
  <2>1. copy.path = Target[w] /\ alias[w] = None
    BY <1>1, <1>16 DEF PathsOK, PathOK
  <2>2. ReleaseAlias(Registry, w) = Registry /\ Registry.alias = alias
    BY <2>1 DEF ReleaseAlias, Registry
  <2>3. PICK refused \in BOOLEAN :
          LET reg == Register(Registry, copy.path, refused) IN
          /\ registered' = reg.registered /\ subscribed' = reg.subscribed
          /\ IF reg = Registry
             THEN alias' = Registry.alias /\ Turn(kept(copy), joined)
             ELSE alias' = [Registry.alias EXCEPT ![w] = copy.path] /\ Turn(kept(CaughtUp(copy)), joined)
    BY <1>16, <2>2 DEF Finish, joined
  <2>4. PICK reg : reg = Register(Registry, Target[w], refused)
    OBVIOUS
  <2>5. OnlyOf(w, Registry, reg) /\ reg.alias = alias
    BY <1>1, <2>2, <2>4, RegisterIsOf DEF Directories
  <2>6. CASE reg = Registry
    BY <1>12, <1>16, <2>1, <2>3, <2>4, <2>6 DEF Registry
  <2>7. CASE reg # Registry
    BY <1>13, <1>16, <2>1, <2>2, <2>3, <2>4, <2>5, <2>7
  <2> QED BY <2>6, <2>7
<1> QED BY <1>14, <1>15, <1>16

\* What a reload makes of a runtime.
LEMMA RereadIs ==
    ASSUME Aside, NInv, NEW w \in Watch
    PROVE  /\ Reread(w) \in Runtimes
           /\ w \notin Listed => Reread(w) = NoRuntime
           /\ w \in Listed =>
                /\ Reread(w).known /\ Reread(w).path = runtime[w].path
                /\ Reread(w).active = IsActive(w) /\ Reread(w).epoch = row[w].epoch
                /\ runtime[w].dirty => Reread(w).dirty
                /\ IsActive(w) => (WasActive(w) /\ ~EpochChanged(w)) \/ Reread(w).dirty
<1>1. runtime[w] \in Runtimes /\ row[w] \in [mode : Mode, epoch : Nat, checkpoint : Samples]
  BY TypesOf DEF Aside, IInv, DurableOK
<1>2. CASE w \notin Listed
  BY <1>2, NoneOfTypes DEF Reread
<1>3. CASE w \in Listed
  <2>1. PICK old \in Runtimes : old = runtime[w]
    BY <1>1
  <2>2. PICK active \in BOOLEAN : active = IsActive(w)
    BY DEF IsActive
  <2>3. PICK dirty \in BOOLEAN :
          dirty = (old.dirty \/ (IsActive(w) /\ (~WasActive(w) \/ EpochChanged(w))))
    OBVIOUS
  <2>4. PICK due \in BOOLEAN : due = (old.due \/ (IsActive(w) /\ EpochChanged(w)))
    OBVIOUS
  <2>5. PICK d \in Candidate : d = IF EpochChanged(w) THEN NoCandidate ELSE old.candidate
    BY NoneOfTypes DEF Runtimes
  <2>6. PICK e \in Nat : e = row[w].epoch
    BY <1>1
  <2>7. Reread(w) = [old EXCEPT !.known = TRUE, !.active = IsActive(w), !.epoch = row[w].epoch,
              !.dirty = old.dirty \/ (IsActive(w) /\ (~WasActive(w) \/ EpochChanged(w))),
              !.due = old.due \/ (IsActive(w) /\ EpochChanged(w)),
              !.candidate = IF EpochChanged(w) THEN NoCandidate ELSE old.candidate]
    BY <1>3, <2>1 DEF Reread
  <2>8. Reread(w) = [old EXCEPT !.known = TRUE, !.active = active, !.epoch = e, !.dirty = dirty,
                                !.due = due, !.candidate = d]
    BY <2>2, <2>3, <2>4, <2>5, <2>6, <2>7, Zenon
  <2>9. PICK new : new = [old EXCEPT !.known = TRUE, !.active = active, !.epoch = e, !.dirty = dirty,
                                     !.due = due, !.candidate = d]
    OBVIOUS
  <2>10. /\ new \in Runtimes /\ new.known /\ new.path = old.path /\ new.active = active
         /\ new.epoch = e /\ new.dirty = dirty
    BY <2>9 DEF Runtimes
  <2>11. (old.dirty => dirty) /\ (IsActive(w) => (WasActive(w) /\ ~EpochChanged(w)) \/ dirty)
    BY <2>3, Zenon
  <2>12. Reread(w) = new
    BY <2>8, <2>9
  <2> QED BY <1>3, <2>1, <2>2, <2>6, <2>10, <2>11, <2>12
<1> QED BY <1>2, <1>3

LEMMA RereadPathFits ==
    ASSUME Aside, NInv, NEW w \in Watch, NEW a \in {None, alias[w]}
    PROVE  PathFits(Reread(w), job[w], a, w)
<1>1. PathOK(w) /\ runtime[w] \in Runtimes /\ Fits(runtime[w], w) /\ row[w].mode \in Mode
  BY TypesOf DEF Aside, NInv, PathsOK, EpochInv, WatchOK, Together, IInv, DurableOK
<1>2. CASE w \notin Listed
  <2>1. Reread(w) = NoRuntime
    BY <1>2, RereadIs
  <2>2. a # None => row[w].mode = "removed"
    <3>1. a # None => row[w].mode # "none"
      BY <1>1, Places DEF PathOK, Fits
    <3> QED BY <1>1, <1>2, <3>1 DEF Listed, Mode
  <2> QED BY <1>1, <2>1, <2>2 DEF PathFits, PathOK, NoRuntime
<1>3. CASE w \in Listed
  <2>1. PICK new : new = Reread(w)
    OBVIOUS
  <2>2. new.known /\ new.path = runtime[w].path /\ new.active = IsActive(w) /\ new.epoch = row[w].epoch
    BY <1>3, <2>1, RereadIs
  <2>3. row[w].mode # "removed"
    BY <1>3 DEF Listed
  <2>4. (job[w].at # "none" /\ new.epoch = job[w].copy.epoch) => new.active
    <3>1. job[w].at # "none" => Fits(job[w].copy, w) /\ job[w].copy.active
      BY DEF Aside, EpochInv, WatchOK, Together, JobFits
    <3> QED BY <2>2, <3>1 DEF Fits, IsActive
  <2> QED BY <1>1, <2>1, <2>2, <2>3, <2>4 DEF PathFits, PathOK
<1> QED BY <1>2, <1>3

\* The registrations of an active watch are left alone by a reload that finds it
\* active as before, if no other watch has its directories.
LEMMA ReloadLeavesAlone ==
    ASSUME NativeOK, PathsOK, NEW refused, NEW w \in Watch, w \in Listed, IsActive(w), WasActive(w),
           \A v \in Watch \ {w} : Directories(v) \cap Directories(w) = {}
    PROVE  /\ Reregistered(refused).alias[w] = alias[w]
           /\ Target[w] \in Reregistered(refused).subscribed => Target[w] \in subscribed
<1> DEFINE S == {reg \in Fitting : /\ reg.alias[w] = alias[w]
                                   /\ Target[w] \in reg.subscribed => Target[w] \in subscribed}
<1>1. Registry \in S
  BY RegistryFits DEF Registry
<1>2. ASSUME NEW reg \in S, NEW v \in Watch, NEW new, OnlyOf(v, reg, new), v = w => new = reg
      PROVE  new \in S
  <2>1. CASE v = w
    BY <1>2, <2>1
  <2>2. CASE v # w
    <3>1. Target[w] \in Dir \ Directories(v)
      BY <2>2, Places DEF Directories
    <3> QED BY <1>2, <2>2, <3>1 DEF OnlyOf
  <2> QED BY <2>1, <2>2
<1>3. ASSUME NEW reg \in S, NEW v \in Watch
      PROVE  Recounted(reg, v, refused) \in S /\ Forget(reg, v) \in S
  <2>1. reg \in Fitting
    OBVIOUS
  <2>2. PICK one, two : one = Recounted(reg, v, refused) /\ two = Forget(reg, v)
    OBVIOUS
  <2>3. OnlyOf(v, reg, one) /\ OnlyOf(v, reg, two)
    BY <2>1, <2>2, RecountedIsOf, ForgetIsOf
  <2>4. v = w => one = reg /\ two = reg
    BY <2>1, <2>2, RecountedIsOf, ForgetIsOf
  <2> HIDE DEF S
  <2> QED BY <1>2, <2>2, <2>3, <2>4
<1>4. Reregistered(refused) \in S
  <2> HIDE DEF S
  <2> QED BY <1>1, <1>3, ReloadKeeps
<1> QED BY <1>4

LEMMA ReloadFits ==
    ASSUME NativeOK, PathsOK, NEW refused
    PROVE  Reregistered(refused) \in Fitting /\ Fewer(Registry, Reregistered(refused))
<1> DEFINE S == {reg \in Fitting : Fewer(Registry, reg)}
<1>1. Registry \in S
  BY RegistryFits DEF Fewer
<1>2. ASSUME NEW reg \in S, NEW v \in Watch
      PROVE  Recounted(reg, v, refused) \in S /\ Forget(reg, v) \in S
  BY RecountedIsOf, ForgetIsOf, FewerAgain DEF OnlyOf
<1>3. Reregistered(refused) \in S
  <2> HIDE DEF S
  <2> QED BY <1>1, <1>2, ReloadKeeps
<1> QED BY <1>3

LEMMA ReloadKeepsNative ==
    ASSUME Aside, NInv, Reload
    PROVE  NInv'
<1>1. IInv /\ EpochInv /\ NativeOK /\ OutsideOK /\ PathsOK
  BY DEF Aside, NInv
<1>2. UNCHANGED <<row, running, queue, changes, crashes, fresh, unread>>
  BY DEF Reload, durable, outside, history
<1>3. PICK runtimes : runtimes = [w \in Watch |-> Reread(w)]
  OBVIOUS
<1>4. Turn(runtimes, job)
  BY <1>3 DEF Reload
<1>5. PICK refused, reg : /\ reg = Reregistered(refused)
                          /\ registered' = reg.registered /\ subscribed' = reg.subscribed
                          /\ alias' = reg.alias
  BY Zenon DEF Reload
<1>6. reg \in Fitting /\ Fewer(Registry, reg)
  BY <1>1, <1>5, ReloadFits
<1>7. NativeOK'
  BY <1>1, <1>2, <1>4, <1>5, <1>6, TurnTypes DEF NativeOK
<1>8. OutsideOK'
  BY <1>1, <1>2 DEF OutsideOK
<1>9. ASSUME NEW w \in Watch PROVE runtimes[w] \in Runtimes /\ PathFits(runtimes[w], job[w], alias'[w], w)
  <2>1. alias'[w] \in {None, alias[w]}
    BY <1>5, <1>6 DEF Fewer, Registry
  <2> QED BY <1>3, <2>1, RereadIs, RereadPathFits
<1>10. PathsOK'
  BY <1>2, <1>4, <1>9, TurnKeepsPaths
<1>11. ASSUME NEW w \in Watch, unread'[w], Followed(w)' PROVE Noticed(w)'
  <2>1. Leads(runtimes, job, w)
    BY <1>4, <1>9, TurnLeads
  <2>2. runtimes[w] = Reread(w) /\ Reread(w).active
    BY <1>3, <1>11, <2>1 DEF Leads, Followed
  <2>3. w \in Listed /\ IsActive(w)
    BY <2>2, RereadIs DEF NoRuntime
  <2>4. CASE Reread(w).dirty
    BY <1>4, <1>9, <2>2, <2>4, TurnKeepsNoticed
  <2>5. CASE ~Reread(w).dirty
    <3>1. WasActive(w) /\ ~runtime[w].dirty /\ Reread(w).path = runtime[w].path
      BY <2>3, <2>5, RereadIs
    <3>2. \A v \in Watch \ {w} : Directories(v) \cap Directories(w) = {}
      BY <1>11 DEF Followed, Directories
    <3>3. reg.alias[w] = alias[w] /\ (Target[w] \in reg.subscribed => Target[w] \in subscribed)
      BY <1>1, <1>5, <2>3, <3>1, <3>2, ReloadLeavesAlone
    <3>4. Target[w] \in subscribed /\ alias'[w] = alias[w]
      BY <1>5, <1>11, <3>3 DEF Followed
    <3>5. Carries(runtimes[w], job[w], w)
      BY <1>9, <2>2, <3>1 DEF Carries, WasActive
    <3> QED BY <1>1, <1>2, <1>4, <1>11, <3>4, <3>5, CarriedOver
  <2> QED BY <2>4, <2>5
<1>12. ChangeIsNoticed'
  BY <1>11 DEF ChangeIsNoticed, Noticed
<1> QED BY <1>7, <1>8, <1>10, <1>12 DEF NInv

LEMMA TimerKeepsNative ==
    ASSUME Aside, NInv, Timer
    PROVE  NInv'
<1>1. IInv /\ EpochInv /\ NativeOK /\ OutsideOK /\ PathsOK
  BY DEF Aside, NInv
<1>2. UNCHANGED <<row, running, queue, registered, subscribed, alias, changes, crashes, fresh, unread>>
      /\ Turn(runtime, job)
  BY DEF Timer, durable, outside, history
<1>3. \A w \in Watch : runtime[w] \in Runtimes /\ PathFits(runtime[w], job[w], alias'[w], w)
  BY <1>1, <1>2, TypesOf, PathFitsAsBefore
<1>4. NativeOK'
  BY <1>1, <1>2, RegistryFits, TurnTypes DEF NativeOK, Registry
<1>5. PathsOK'
  BY <1>2, <1>3, TurnKeepsPaths
<1>6. ASSUME NEW w \in Watch, unread'[w], Followed(w)' PROVE Noticed(w)'
  <2>1. Target[w] \in subscribed /\ alias'[w] = alias[w]
    BY <1>2, <1>6 DEF Followed
  <2>2. Carries(runtime[w], job[w], w)
    BY <1>1, AsBefore
  <2> QED BY <1>1, <1>2, <1>6, <2>1, <2>2, CarriedOver
<1>7. ChangeIsNoticed'
  BY <1>6 DEF ChangeIsNoticed, Noticed
<1> QED BY <1>1, <1>2, <1>4, <1>5, <1>7 DEF NInv, OutsideOK

\* A received report makes its watch dirty.
LEMMA ReceiveKeepsNative ==
    ASSUME Aside, NInv, Receive
    PROVE  NInv'
<1>1. IInv /\ EpochInv /\ NativeOK /\ OutsideOK /\ PathsOK
  BY DEF Aside, NInv
<1>2. PICK runtimes : runtimes =
        [w \in Watch |-> IF runtime[w].known /\ Matches(runtime[w], w, Head(queue))
                         THEN [runtime[w] EXCEPT !.dirty = TRUE] ELSE runtime[w]]
  OBVIOUS
<1>3. /\ UNCHANGED <<row, running, registered, subscribed, alias, changes, crashes, fresh, unread>>
      /\ Turn(runtimes, job) /\ queue # <<>> /\ queue' = Tail(queue)
  BY <1>2 DEF Receive, durable, outside, history
<1>4. /\ queue' \in Seq(Watch \X Dir) /\ Len(queue') = Len(queue) - 1 /\ Len(queue') <= QueueCapacity
      /\ \A n \in 2..Len(queue) : queue'[n - 1] = queue[n]
      /\ Len(queue) \in Nat /\ Head(queue) = queue[1]
  BY <1>1, <1>3, CollectorConstants DEF NativeOK
<1>5. ASSUME NEW w \in Watch
      PROVE  /\ runtimes[w] \in Runtimes /\ runtimes[w].path = runtime[w].path
             /\ runtimes[w].active = runtime[w].active /\ runtimes[w].known = runtime[w].known
             /\ runtimes[w].epoch = runtime[w].epoch
             /\ runtime[w].dirty => runtimes[w].dirty
             /\ (runtime[w].known /\ Matches(runtime[w], w, queue[1])) => runtimes[w].dirty
  <2>1. PICK old \in Runtimes : old = runtime[w]
    BY <1>1, TypesOf
  <2>2. CASE runtime[w].known /\ Matches(runtime[w], w, queue[1])
    <3>1. runtimes[w] = [old EXCEPT !.dirty = TRUE]
      BY <1>2, <1>4, <2>1, <2>2
    <3> QED BY <2>1, <3>1 DEF Runtimes
  <2>3. CASE ~(runtime[w].known /\ Matches(runtime[w], w, queue[1]))
    <3>1. runtimes[w] = old
      BY <1>2, <1>4, <2>1, <2>3
    <3> QED BY <2>1, <2>3, <3>1
  <2> QED BY <2>2, <2>3
<1>6. ASSUME NEW w \in Watch PROVE runtimes[w] \in Runtimes /\ PathFits(runtimes[w], job[w], alias'[w], w)
  <2>1. PathFits(runtime[w], job[w], alias[w], w)
    BY <1>1, PathFitsAsBefore
  <2> QED BY <1>3, <1>5, <2>1 DEF PathFits
<1>7. NativeOK'
  BY <1>1, <1>3, <1>4, RegistryFits, TurnTypes DEF NativeOK, Registry
<1>8. PathsOK'
  BY <1>3, <1>6, TurnKeepsPaths
<1>9. ASSUME NEW w \in Watch, unread'[w], Followed(w)' PROVE Noticed(w)'
  <2>1. Leads(runtimes, job, w)
    BY <1>3, <1>6, TurnLeads
  <2>2. runtime[w].active /\ runtime[w].known /\ runtimes[w].active
    BY <1>1, <1>5, <1>9, <2>1, TypesOf DEF Leads, Followed
  <2>3. Followed(w)
    BY <1>3, <1>9, <2>2 DEF Followed
  <2>4. Noticed(w)
    BY <1>3, <1>9, <2>3, NoticedIs DEF NInv
  <2>5. CASE \E n \in 1..Len(queue) : Matches(runtime[w], w, queue[n])
    <3>1. PICK n \in 1..Len(queue) : Matches(runtime[w], w, queue[n])
      BY <2>5
    <3>2. CASE n = 1
      BY <1>3, <1>5, <2>2, <3>1, <3>2, TurnKeepsNoticed
    <3>3. CASE n # 1
      <4>1. n - 1 \in 1..Len(queue') /\ queue'[n - 1] = queue[n]
        BY <1>4, <3>3
      <4>2. Matches(runtimes[w], w, queue'[n - 1])
        BY <1>5, <3>1, <4>1 DEF Matches
      <4> QED BY <1>3, <1>5, <4>1, <4>2, TurnKeepsNoticed
    <3> QED BY <3>2, <3>3
  <2>6. CASE overflow
    BY <1>3, <1>5, <2>2, <2>6, TurnKeepsNoticed
  <2>7. CASE runtime[w].dirty
    BY <1>3, <1>5, <2>7, TurnKeepsNoticed
  <2>8. CASE job[w].at = "reading"
    BY <1>3, <1>5, <2>8, TurnKeepsNoticed
  <2> QED BY <2>4, <2>5, <2>6, <2>7, <2>8, Zenon DEF Noticed
<1>10. ChangeIsNoticed'
  BY <1>9 DEF ChangeIsNoticed, Noticed
<1> QED BY <1>1, <1>3, <1>7, <1>8, <1>10 DEF NInv, OutsideOK

\* What a turn, a reload or a change of a watched file does not concern.
LEMMA NoticedStays ==
    ASSUME NInv, NEW w \in Watch, UNCHANGED native, unread'[w] => unread[w],
           runtime'[w].active = runtime[w].active, runtime'[w].path = runtime[w].path,
           runtime'[w].dirty = runtime[w].dirty,
           job'[w].at = job[w].at \/ ~unread'[w] \/ job[w].at # "reading",
           unread'[w], Followed(w)'
    PROVE  Noticed(w)'
<1>1. UNCHANGED <<registered, subscribed, alias, queue, overflow>>
  BY DEF native
<1>2. Followed(w)
  BY <1>1 DEF Followed
<1>3. Noticed(w)
  BY <1>2, NoticedIs DEF NInv
<1> QED BY <1>1, <1>3 DEF Noticed, Matches

LEMMA CommandKeepsNative ==
    ASSUME Aside, NInv, NEW w \in Watch, watch_create(w) \/ \E mode \in Mode : watch_action(w, mode)
    PROVE  NInv'
<1>1. /\ UNCHANGED <<running, runtime, job, changes, crashes, unread>> /\ UNCHANGED native
      /\ fresh' = [fresh EXCEPT ![w] = {file[w]}]
  BY DEF watch_create, watch_action, Began, memory, outside
<1>2. \A v \in Watch : row[v].mode = "removed" => row'[v].mode = "removed"
  <2>1. DOMAIN row = Watch
    BY DEF Aside, IInv, DurableOK
  <2>2. row[w].mode # "removed" /\ \A v \in Watch \ {w} : row'[v] = row[v]
    BY <2>1 DEF watch_create, watch_action
  <2> QED BY <2>2
<1>3. NativeOK'
  BY <1>1 DEF NInv, NativeOK, native
<1>4. OutsideOK'
  <2>1. file[w] \in Content
    BY DEF Aside, IInv, DurableOK
  <2> QED BY <1>1, <2>1 DEF NInv, OutsideOK
<1>5. PathsOK'
  BY <1>1, <1>2 DEF NInv, PathsOK, PathOK, native
<1>6. ChangeIsNoticed'
  <2>1. ASSUME NEW v \in Watch, unread'[v], Followed(v)' PROVE Noticed(v)'
    BY <1>1, <2>1, NoticedStays
  <2> QED BY <2>1 DEF ChangeIsNoticed, Noticed
<1> QED BY <1>3, <1>4, <1>5, <1>6 DEF NInv

\* What is sent is in the queue, up to the first that does not fit: then the
\* overflow mark stands.
LEMMA SendKeeps ==
    ASSUME NativeOK, NEW events \in Seq(Watch \X Dir), Send(events)
    PROVE  /\ queue' \in Seq(Watch \X Dir) /\ Len(queue') <= QueueCapacity /\ overflow' \in BOOLEAN
           /\ overflow => overflow'
           /\ \/ overflow'
              \/ /\ Len(queue') = Len(queue) + Len(events)
                 /\ \A n \in 1..Len(queue) : queue'[n] = queue[n]
                 /\ \A n \in 1..Len(events) : queue'[Len(queue) + n] = events[n]
<1>1. PICK all \in Seq(Watch \X Dir) : all = queue \o events
  <2>1. PICK T : T = Watch \X Dir
    OBVIOUS
  <2>2. queue \in Seq(T) /\ events \in Seq(T)
    BY <2>1 DEF NativeOK
  <2>3. queue \o events \in Seq(T)
    BY <2>2
  <2> QED BY <2>1, <2>3
<1>2. /\ Len(all) = Len(queue) + Len(events) /\ Len(queue) \in Nat /\ Len(events) \in Nat
      /\ \A n \in 1..Len(queue) : all[n] = queue[n]
      /\ \A n \in 1..Len(events) : all[Len(queue) + n] = events[n]
  BY <1>1 DEF NativeOK
<1>3. CASE Len(queue) + Len(events) <= QueueCapacity
  <2>1. queue' = all /\ overflow' = overflow
    BY <1>1, <1>3 DEF Send
  <2> QED BY <1>2, <1>3, <2>1 DEF NativeOK
<1>4. CASE ~(Len(queue) + Len(events) <= QueueCapacity)
  <2>1. queue' = SubSeq(all, 1, QueueCapacity) /\ overflow' = TRUE
    BY <1>1, <1>4 DEF Send
  <2>2. QueueCapacity \in Nat /\ QueueCapacity <= Len(all)
    BY <1>2, <1>4, CollectorConstants
  <2>3. SubSeq(all, 1, QueueCapacity) \in Seq(Watch \X Dir) /\ Len(SubSeq(all, 1, QueueCapacity)) = QueueCapacity
    BY <2>2
  <2> QED BY <2>1, <2>2, <2>3
<1> QED BY <1>3, <1>4

\* A change of a followed watch is sent under a name it knows.
LEMMA ChangeKeepsNative ==
    ASSUME Aside, NInv, NEW w \in Watch, NEW content \in Content, Change(w, content)
    PROVE  NInv'
<1>1. IInv /\ EpochInv /\ NativeOK /\ OutsideOK /\ PathsOK
  BY DEF Aside, NInv
<1>2. /\ UNCHANGED <<row, running, runtime, job, registered, subscribed, alias, crashes>>
      /\ changes' = [changes EXCEPT ![w] = @ + 1]
      /\ fresh' = [fresh EXCEPT ![w] = @ \cup {content}]
      /\ unread' = [unread EXCEPT ![w] = TRUE]
  BY DEF Change, durable, memory
<1>3. PICK events \in ReportsOf(w) : Send(events)
  BY DEF Change
<1>4. /\ events \in Seq(Watch \X Dir)
      /\ Target[w] \in subscribed => events # <<>> /\ events[1] = <<w, Target[w]>>
  <2>1. PICK real, other : /\ real = IF Target[w] \in subscribed THEN << <<w, Target[w]>> >> ELSE <<>>
                           /\ other \in {<<>>, << <<w, DirOf[w]>> >>}
                           /\ events = real \o other
    BY <1>3 DEF ReportsOf
  <2>2. real \in Seq(Watch \X Dir) /\ other \in Seq(Watch \X Dir)
    <3>1. PICK T : T = Watch \X Dir
      OBVIOUS
    <3>2. PICK a \in T, b \in T : a = <<w, Target[w]>> /\ b = <<w, DirOf[w]>>
      BY <3>1, Places
    <3>3. real \in {<<>>, <<a>>} /\ other \in {<<>>, <<b>>}
      BY <2>1, <3>2
    <3>4. <<>> \in Seq(T) /\ <<a>> \in Seq(T) /\ <<b>> \in Seq(T)
      OBVIOUS
    <3>5. real \in Seq(T) /\ other \in Seq(T)
      BY <3>3, <3>4
    <3> QED BY <3>1, <3>5
  <2>3. Target[w] \in subscribed => Len(real) = 1 /\ real[1] = <<w, Target[w]>>
    BY <2>1
  <2> QED BY <2>1, <2>2, <2>3
<1>5. /\ queue' \in Seq(Watch \X Dir) /\ Len(queue') <= QueueCapacity /\ overflow' \in BOOLEAN
      /\ overflow => overflow'
      /\ \/ overflow'
         \/ /\ Len(queue') = Len(queue) + Len(events)
            /\ \A n \in 1..Len(queue) : queue'[n] = queue[n]
            /\ \A n \in 1..Len(events) : queue'[Len(queue) + n] = events[n]
  BY <1>1, <1>3, <1>4, SendKeeps
<1>6. NativeOK'
  BY <1>1, <1>2, <1>5 DEF NativeOK
<1>7. OutsideOK'
  BY <1>1, <1>2 DEF OutsideOK
<1>8. PathsOK'
  BY <1>1, <1>2 DEF PathsOK, PathOK
<1>9. ASSUME NEW v \in Watch, unread'[v], Followed(v)' PROVE Noticed(v)'
  <2>1. Followed(v)
    BY <1>2, <1>9 DEF Followed
  <2>2. Len(queue) \in Nat /\ Len(events) \in Nat
    BY <1>1, <1>4 DEF NativeOK
  <2>3. CASE overflow'
    BY <2>3 DEF Noticed
  <2>4. CASE ~overflow' /\ v = w
    <3>1. Len(events) >= 1 /\ events[1] = <<w, Target[w]>>
      BY <1>4, <2>1, <2>4 DEF Followed
    <3>2. Len(queue) + 1 \in 1..Len(queue') /\ queue'[Len(queue) + 1] = <<w, Target[w]>>
      BY <1>5, <2>2, <2>4, <3>1
    <3>3. Target[w] \in {DirOf[w], runtime[w].path}
      <4>1. runtime[w].known /\ PathOK(w)
        BY <1>1, <2>1, <2>4, TypesOf DEF PathsOK, Followed
      <4> QED BY <2>1, <2>4, <4>1, Places DEF Followed, PathOK
    <3>4. Matches(runtime'[w], w, queue'[Len(queue) + 1])
      BY <1>2, <3>2, <3>3 DEF Matches
    <3> QED BY <2>4, <3>2, <3>4 DEF Noticed
  <2>5. CASE ~overflow' /\ v # w
    <3>1. unread[v]
      BY <1>1, <1>2, <1>9, <2>5 DEF OutsideOK
    <3>2. Noticed(v)
      BY <2>1, <3>1, NoticedIs DEF NInv
    <3>3. CASE \E n \in 1..Len(queue) : Matches(runtime[v], v, queue[n])
      <4>1. PICK n \in 1..Len(queue) : Matches(runtime[v], v, queue[n])
        BY <3>3
      <4>2. n \in 1..Len(queue') /\ queue'[n] = queue[n]
        BY <1>5, <2>2, <2>5
      <4>3. Matches(runtime'[v], v, queue'[n])
        BY <1>2, <4>1, <4>2
      <4> QED BY <4>2, <4>3 DEF Noticed
    <3>4. CASE ~(\E n \in 1..Len(queue) : Matches(runtime[v], v, queue[n]))
      <4>1. runtime[v].dirty \/ job[v].at = "reading"
        BY <1>5, <2>5, <3>2, <3>4, Zenon DEF Noticed
      <4> QED BY <1>2, <4>1 DEF Noticed
    <3> QED BY <3>3, <3>4
  <2> QED BY <2>3, <2>4, <2>5
<1>10. ChangeIsNoticed'
  BY <1>9 DEF ChangeIsNoticed, Noticed
<1> QED BY <1>6, <1>7, <1>8, <1>10 DEF NInv

\* Time marks a runtime or a copy due or ripe.
LEMMA TimeKeepsNative ==
    ASSUME Aside, NInv, NEW w \in Watch, IntervalElapses(w) \/ DebounceElapses(w)
    PROVE  NInv'
<1>1. IInv /\ EpochInv /\ NativeOK /\ OutsideOK /\ PathsOK
  BY DEF Aside, NInv
<1>2. UNCHANGED <<row, running, changes, crashes, fresh, unread>> /\ UNCHANGED native
  BY DEF IntervalElapses, DebounceElapses, durable, outside, history
<1>3. DOMAIN runtime = Watch /\ DOMAIN job = Watch /\ runtime[w] \in Runtimes /\ job[w] \in Jobs
      /\ job[w].copy \in Runtimes
  BY <1>1, TypesOf DEF EpochInv, Domains
<1>4. /\ \A v \in Watch : /\ runtime'[v].known = runtime[v].known /\ runtime'[v].active = runtime[v].active
                          /\ runtime'[v].epoch = runtime[v].epoch /\ runtime'[v].dirty = runtime[v].dirty
                          /\ runtime'[v].path = runtime[v].path
                          /\ job'[v].at = job[v].at /\ job'[v].copy.path = job[v].copy.path
                          /\ job'[v].copy.epoch = job[v].copy.epoch
  <2>1. CASE \E r : /\ runtime' = [runtime EXCEPT ![w] = r] /\ job' = job
                    /\ r.known = runtime[w].known /\ r.active = runtime[w].active
                    /\ r.epoch = runtime[w].epoch /\ r.dirty = runtime[w].dirty
                    /\ r.path = runtime[w].path
    BY <1>3, <2>1
  <2>2. CASE IntervalElapses(w)
    <3>1. PICK r : r = [runtime[w] EXCEPT !.due = TRUE]
      OBVIOUS
    <3>2. runtime' = [runtime EXCEPT ![w] = r] /\ job' = job
      BY <2>2, <3>1 DEF IntervalElapses
    <3> QED BY <1>3, <2>1, <3>1, <3>2 DEF Runtimes
  <2>3. CASE DebounceElapses(w) /\ job[w].at = "none"
    <3>1. PICK d : d = [runtime[w].candidate EXCEPT !.ripe = TRUE]
      OBVIOUS
    <3>2. PICK r : r = [runtime[w] EXCEPT !.candidate = d]
      OBVIOUS
    <3>3. runtime' = [runtime EXCEPT ![w] = r] /\ job' = job
      BY <2>3, <3>1, <3>2 DEF DebounceElapses
    <3> QED BY <1>3, <2>1, <3>2, <3>3 DEF Runtimes
  <2>4. CASE DebounceElapses(w) /\ job[w].at # "none"
    <3>1. PICK d : d = [job[w].copy.candidate EXCEPT !.ripe = TRUE]
      OBVIOUS
    <3>2. PICK c : c = [job[w].copy EXCEPT !.candidate = d]
      OBVIOUS
    <3>3. c.path = job[w].copy.path /\ c.epoch = job[w].copy.epoch
      BY <1>3, <3>2 DEF Runtimes
    <3>4. PICK j : j = [job[w] EXCEPT !.copy = c]
      OBVIOUS
    <3>5. j.at = job[w].at /\ j.copy = c
      BY <1>3, <3>4 DEF Jobs
    <3>6. job' = [job EXCEPT ![w] = j] /\ runtime' = runtime
      BY <2>4, <3>1, <3>2, <3>4 DEF DebounceElapses
    <3> QED BY <1>3, <3>3, <3>5, <3>6
  <2> QED BY <2>2, <2>3, <2>4
<1>5. NativeOK' /\ OutsideOK'
  BY <1>1, <1>2 DEF NativeOK, OutsideOK, native
<1>6. PathsOK'
  BY <1>1, <1>2, <1>4 DEF PathsOK, PathOK, native
<1>7. ASSUME NEW v \in Watch, unread'[v], Followed(v)' PROVE Noticed(v)'
  BY <1>2, <1>4, <1>7, NoticedStays
<1>8. ChangeIsNoticed'
  BY <1>7 DEF ChangeIsNoticed, Noticed
<1> QED BY <1>5, <1>6, <1>8 DEF NInv

\* A job goes on: its copy learns where the path leads and forgets nothing else,
\* and what it was to read is read.
LEMMA JobKeepsNative ==
    ASSUME Aside, NInv, NEW w \in Watch, NEW new, Becomes(w, new),
           UNCHANGED <<running, runtime, changes, crashes, fresh>>, UNCHANGED native,
           \A v \in Watch : row'[v].mode = row[v].mode,
           job[w].at # "none",
           new.copy.path \in {job[w].copy.path, Target[w]}, new.copy.epoch = job[w].copy.epoch,
           \/ unread' = unread /\ job[w].at # "reading"
           \/ unread' = [unread EXCEPT ![w] = FALSE]
    PROVE  NInv'
<1>1. NativeOK /\ OutsideOK /\ PathsOK /\ DOMAIN unread = Watch
  BY DEF Aside, NInv, OutsideOK
<1>2. /\ job'[w] = new /\ \A v \in Watch \ {w} : job'[v] = job[v]
      /\ \A v \in Watch \ {w} : unread'[v] = unread[v]
      /\ unread'[w] => unread[w] /\ job[w].at # "reading"
  BY <1>1 DEF Becomes
<1>3. NativeOK'
  BY <1>1 DEF NativeOK, native
<1>4. OutsideOK'
  BY <1>1 DEF OutsideOK
<1>5. PathsOK'
  <2> SUFFICES ASSUME NEW v \in Watch PROVE PathOK(v)'
    BY DEF PathsOK
  <2>1. PathOK(v) /\ UNCHANGED alias
    BY <1>1 DEF PathsOK, native
  <2>2. CASE v # w
    BY <1>2, <2>1, <2>2 DEF PathOK
  <2>3. CASE v = w
    <3>1. Target[w] # None
      BY Places
    <3> QED BY <1>2, <2>1, <2>3, <3>1 DEF PathOK
  <2> QED BY <2>2, <2>3
<1>6. ASSUME NEW v \in Watch, unread'[v], Followed(v)' PROVE Noticed(v)'
  <2>1. unread[v] /\ runtime'[v] = runtime[v] /\ (job'[v].at = job[v].at \/ job[v].at # "reading")
    BY <1>2, <1>6
  <2> QED BY <1>6, <2>1, NoticedStays
<1>7. ChangeIsNoticed'
  BY <1>6 DEF ChangeIsNoticed, Noticed
<1> QED BY <1>3, <1>4, <1>5, <1>7 DEF NInv

LEMMA SampleKeepsNative ==
    ASSUME Aside, NInv, NEW w \in Watch, Sample(w) \/ SampleUnreadable(w) \/ SampleFails(w)
    PROVE  NInv'
<1>1. /\ UNCHANGED <<row, running, runtime, changes, crashes, fresh>> /\ UNCHANGED native
      /\ job[w].at = "reading" /\ unread' = [unread EXCEPT ![w] = FALSE]
  BY DEF Sample, SampleUnreadable, SampleFails, durable, outside, ReadNow
<1>2. DOMAIN job = Watch /\ job[w] \in Jobs /\ job[w].copy \in Runtimes
  BY TypesOf DEF Aside, EpochInv, Domains
<1>3. PICK old \in Jobs : old = job[w] /\ old.copy \in Runtimes
  BY <1>2
<1>4. PICK moved : moved = [old.copy EXCEPT !.path = Target[w]]
  OBVIOUS
<1>5. Target[w] \in Dir \cup {None}
  BY Places
<1>6. moved \in Runtimes /\ moved.path = Target[w] /\ moved.epoch = old.copy.epoch
  BY <1>3, <1>4, <1>5 DEF Runtimes
<1>7. ASSUME NEW c \in Runtimes PROVE /\ NoLongerDue(c).path = c.path /\ NoLongerDue(c).epoch = c.epoch
                                      /\ NoLongerDue(c) \in Runtimes
  BY <1>7 DEF NoLongerDue, Runtimes
<1>8. ASSUME NEW c \in Runtimes, c.path \in {old.copy.path, Target[w]}, c.epoch = old.copy.epoch, Done(w, c)
      PROVE  NInv'
  <2>1. PICK j : j = [NoJob EXCEPT !.at = "done", !.copy = c]
    OBVIOUS
  <2>2. Becomes(w, j)
    BY <1>2, <1>8, <2>1 DEF Done, Becomes
  <2>3. j.copy = c
    BY <1>8, <2>1, EndedJob
  <2> QED BY <1>1, <1>3, <1>8, <2>2, <2>3, JobKeepsNative
<1>9. CASE Sample(w)
  <2>1. PICK sample : sample = Observes[w][file[w]]
    OBVIOUS
  <2>2. CASE sample = None
    <3>1. Done(w, moved) \/ Done(w, NoLongerDue(moved))
      BY <1>3, <1>4, <1>9, <2>1, <2>2 DEF Sample
    <3> QED BY <1>6, <1>7, <1>8, <3>1
  <2>3. CASE sample # None
    <3>1. job' = [job EXCEPT ![w] = [old EXCEPT !.at = "read", !.sample = sample, !.copy = moved]]
      BY <1>3, <1>4, <1>9, <2>1, <2>3 DEF Sample
    <3>2. PICK new : new = [old EXCEPT !.at = "read", !.sample = sample, !.copy = moved]
      OBVIOUS
    <3>3. Becomes(w, new) /\ new.copy = moved
      BY <1>2, <1>3, <3>1, <3>2 DEF Becomes, Jobs
    <3> QED BY <1>1, <1>3, <1>6, <3>3, JobKeepsNative
  <2> QED BY <2>2, <2>3
<1>10. CASE SampleUnreadable(w)
  BY <1>3, <1>4, <1>6, <1>8, <1>10 DEF SampleUnreadable
<1>11. CASE SampleFails(w)
  BY <1>3, <1>7, <1>8, <1>11 DEF SampleFails
<1> QED BY <1>9, <1>10, <1>11

LEMMA StoreKeepsNative ==
    ASSUME Aside, NInv, NEW w \in Watch, NEW accepted, Store(w, accepted)
    PROVE  NInv'
<1>1. /\ UNCHANGED <<running, runtime, changes, crashes, fresh, unread>> /\ UNCHANGED native
      /\ job[w].at = "read"
      /\ row' = row \/ \E sample : row' = [row EXCEPT ![w].checkpoint = sample]
  BY DEF Store, Commit, durable, outside
<1>2. \A v \in Watch : row'[v].mode = row[v].mode
  BY <1>1 DEF Aside, IInv, DurableOK
<1>3. PICK c : Leaves(w, c)
  BY StoreLeaves DEF Aside
<1>4. PICK j : j = [NoJob EXCEPT !.at = "done", !.copy = c]
  OBVIOUS
<1>5. Becomes(w, j) /\ j.copy = c
  BY <1>3, <1>4, EndedJob DEF Leaves, Done, Aside, EpochInv, Domains, Becomes
<1>6. c.path = job[w].copy.path /\ c.epoch = job[w].copy.epoch
  BY <1>3 DEF Leaves
<1> QED BY <1>1, <1>2, <1>5, <1>6, JobKeepsNative

LEMMA ProcessKeepsNative ==
    ASSUME Aside, NInv, Die \/ Start \/ UNCHANGED vars
    PROVE  NInv'
<1>1. CASE Die
  <2>1. NativeOK'
    BY <1>1, NothingQueued DEF Die, NInv, NativeOK
  <2>2. OutsideOK'
    BY <1>1, CollectorConstants DEF Die, NInv, OutsideOK
  <2>3. PathsOK'
    BY <1>1 DEF Die, PathsOK, PathOK, NoRuntime, NoJob
  <2>4. ChangeIsNoticed'
    BY <1>1 DEF Die, ChangeIsNoticed
  <2> QED BY <2>1, <2>2, <2>3, <2>4 DEF NInv
<1>2. CASE Start \/ UNCHANGED vars
  <2>1. /\ UNCHANGED <<row, runtime, job, changes, crashes, fresh, unread>> /\ UNCHANGED native
        /\ running' \in BOOLEAN
    BY <1>2 DEF Start, vars, durable, memory, outside, history, NInv, NativeOK
  <2>2. NativeOK'
    BY <2>1 DEF NInv, NativeOK, native
  <2>3. OutsideOK'
    BY <2>1 DEF NInv, OutsideOK
  <2>4. PathsOK'
    BY <2>1 DEF NInv, PathsOK, PathOK, native
  <2>5. ASSUME NEW v \in Watch, unread'[v], Followed(v)' PROVE Noticed(v)'
    BY <2>1, <2>5, NoticedStays
  <2>6. ChangeIsNoticed'
    BY <2>5 DEF ChangeIsNoticed, Noticed
  <2> QED BY <2>2, <2>3, <2>4, <2>6 DEF NInv
<1> QED BY <1>1, <1>2

\* The registrations, paths and reports, in every state.
THEOREM NativeInvariant == Spec => []NInv
<1>1. Init => NInv
  <2> SUFFICES ASSUME Init PROVE NInv
    OBVIOUS
  <2>1. NativeOK
    BY NothingQueued DEF Init, NativeOK
  <2>2. OutsideOK
    BY CollectorConstants DEF Init, OutsideOK
  <2>3. PathsOK
    BY DEF Init, PathsOK, PathOK, NoRuntime, NoJob
  <2>4. ChangeIsNoticed
    BY DEF Init, ChangeIsNoticed
  <2> QED BY <2>1, <2>2, <2>3, <2>4 DEF NInv
<1>2. IInv /\ EpochInv /\ NInv /\ [Next]_vars => NInv'
  <2> SUFFICES ASSUME Aside, NInv, [Next]_vars PROVE NInv'
    BY DEF Aside
  <2>1. CASE Die \/ Start \/ UNCHANGED vars
    BY <2>1, ProcessKeepsNative
  <2>2. CASE Dispatcher
    BY <2>2, ReloadKeepsNative, ReceiveKeepsNative, TimerKeepsNative DEF Dispatcher
  <2>3. ASSUME NEW w \in Watch,
               \/ watch_create(w) \/ \E mode \in Mode : watch_action(w, mode)
               \/ \E content \in Content : Change(w, content)
               \/ Work(w)
               \/ IntervalElapses(w) \/ DebounceElapses(w)
        PROVE  NInv'
    BY <2>3, CommandKeepsNative, ChangeKeepsNative, SampleKeepsNative, StoreKeepsNative,
       FinishKeepsNative, TimeKeepsNative DEF Work
  <2> QED BY <2>1, <2>2, <2>3 DEF Next
<1> QED BY <1>1, <1>2, Invariant, EpochsAgree, PTL DEF Spec

\* Runtimes, jobs and streaks are functions of the watches.
AreFunctions ==
    /\ runtime = [w \in Watch |-> runtime[w]] /\ job = [w \in Watch |-> job[w]]
    /\ streak = [w \in Watch |-> streak[w]]

LEMMA TurnMakesFunctions ==
    ASSUME NEW runtimes, NEW jobs, Turn(runtimes, jobs)
    PROVE  runtime' = [w \in Watch |-> runtime'[w]] /\ job' = [w \in Watch |-> job'[w]]
<1> DEFINE swept == [v \in Watch |-> IF overflow /\ runtimes[v].active
                                     THEN [runtimes[v] EXCEPT !.dirty = TRUE] ELSE runtimes[v]]
           marked(some, v) == IF v \in some THEN [swept[v] EXCEPT !.dirty = FALSE] ELSE swept[v]
           begun(some) == [v \in Watch |-> marked(some, v)]
           start(some, v) == IF v \in some
                             THEN [at |-> "reading", sample |-> None,
                                   ripe |-> begun(some)[v].candidate.ripe, copy |-> begun(some)[v]]
                             ELSE jobs[v]
<1>1. PICK some : runtime' = begun(some) /\ job' = [v \in Watch |-> start(some, v)]
  BY Zenon DEF Turn
<1> HIDE DEF marked, start
<1> QED BY <1>1

LEMMA FunctionsStay == AreFunctions /\ [Next]_vars => AreFunctions'
<1> SUFFICES ASSUME AreFunctions, [Next]_vars PROVE AreFunctions'
  OBVIOUS
<1>1. CASE Die \/ Start \/ UNCHANGED vars
  BY <1>1 DEF Die, Start, vars, memory, history, AreFunctions
<1>2. ASSUME NEW runtimes, NEW jobs, Turn(runtimes, jobs), streak' = streak
      PROVE  AreFunctions'
  BY <1>2, TurnMakesFunctions DEF AreFunctions
<1>3. CASE Dispatcher \/ \E w \in Watch : Finish(w)
  <2>1. streak' = streak
    BY <1>3 DEF Dispatcher, Reload, Receive, Timer, Finish, history
  <2>2. CASE Dispatcher
    BY <1>2, <2>1, <2>2 DEF Dispatcher, Reload, Receive, Timer
  <2>3. ASSUME NEW w \in Watch, Finish(w) PROVE AreFunctions'
    BY <1>2, <2>1, <2>3 DEF Finish
  <2> QED BY <1>3, <2>2, <2>3
<1>4. ASSUME NEW w \in Watch,
             \/ watch_create(w) \/ \E mode \in Mode : watch_action(w, mode)
             \/ \E content \in Content : Change(w, content)
             \/ Sample(w) \/ SampleUnreadable(w) \/ SampleFails(w)
             \/ \E accepted \in BOOLEAN : Store(w, accepted)
             \/ IntervalElapses(w) \/ DebounceElapses(w)
      PROVE  AreFunctions'
  <2>1. runtime' = runtime \/ \E r : runtime' = [runtime EXCEPT ![w] = r]
    BY <1>4, Zenon DEF watch_create, watch_action, Change, Sample, SampleUnreadable, SampleFails, Store,
                IntervalElapses, DebounceElapses, memory
  <2>2. job' = job \/ \E j : job' = [job EXCEPT ![w] = j]
    BY <1>4, Zenon DEF watch_create, watch_action, Change, Sample, SampleUnreadable, SampleFails, Store,
                IntervalElapses, DebounceElapses, memory, Done
  <2>3. streak' = streak \/ \E t : streak' = [streak EXCEPT ![w] = t]
    BY <1>4, Zenon DEF watch_create, watch_action, Change, Sample, SampleUnreadable, SampleFails, Store,
                IntervalElapses, DebounceElapses, history, Began, Counted
  <2>4. runtime' = [v \in Watch |-> runtime'[v]]
    BY <2>1 DEF AreFunctions
  <2>5. job' = [v \in Watch |-> job'[v]]
    BY <2>2 DEF AreFunctions
  <2>6. streak' = [v \in Watch |-> streak'[v]]
    BY <2>3 DEF AreFunctions
  <2> QED BY <2>4, <2>5, <2>6 DEF AreFunctions
<1> QED BY <1>1, <1>3, <1>4 DEF Next, Work

\* The types of the variables: no count of registrations falls below zero, and
\* the queue stays within its capacity.
THEOREM TypeCorrect == Spec => []TypeOK
<1>1. IInv /\ EpochInv /\ NInv /\ AreFunctions => TypeOK
  <2> SUFFICES ASSUME IInv, EpochInv, NInv, AreFunctions PROVE TypeOK
    OBVIOUS
  <2>1. /\ row \in [Watch -> [mode : Mode, epoch : Nat, checkpoint : Samples]]
        /\ \A w \in Watch : reported[w] \in Seq([previous : Content, current : Content])
        /\ file \in [Watch -> Content]
    BY DEF IInv, DurableOK, Event
  <2>2. runtime \in [Watch -> Runtimes] /\ job \in [Watch -> Jobs]
    <3>1. \A w \in Watch : runtime[w] \in Runtimes /\ job[w] \in Jobs
      BY TypesOf
    <3> QED BY <3>1 DEF AreFunctions
  <2>3. streak \in [Watch -> Streaks]
    BY DEF EpochInv, WatchOK, AreFunctions
  <2> QED BY <2>1, <2>2, <2>3 DEF NInv, NativeOK, OutsideOK, TypeOK, Runtimes, Jobs, Candidate, Streaks
<1>2. Init => AreFunctions
  BY DEF Init, AreFunctions
<1> QED BY <1>1, <1>2, Invariant, EpochsAgree, NativeInvariant, FunctionsStay, PTL DEF Spec

\* No change of a followed watch waits for the interval: it is in the queue, or
\* its overflow is marked, or the watch is dirty, or its job has still to read.
THEOREM ChangesAreNoticed == Spec => []ChangeIsNoticed
  BY NativeInvariant, PTL DEF NInv
=============================================================================
