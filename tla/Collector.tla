----------------------------- MODULE Collector -----------------------------
(***************************************************************************)
(* The collector of managed files (rust/src/collector.rs) and the rows of   *)
(* managed_watches it writes (rust/src/store.rs).  One dispatcher loop owns *)
(* the runtimes of the watches; a due watch is sampled by a job, which gets *)
(* a copy of its runtime, and the copy replaces the runtime when the job    *)
(* ends.  Meanwhile watches are paused and removed, files change, the       *)
(* system reports changes, and the process may die.                         *)
(***************************************************************************)
EXTENDS Integers, FiniteSets, Sequences, Functions

CONSTANTS
    Watch,          \* ids of managed watches
    Content,        \* contents of a watched file, its absence included
    Dir,            \* directories
    None,           \* no sample, no directory
    DirOf,          \* the directory a watch's path names
    Target,         \* the directory that one really is
    Refusable,      \* directories the system may refuse to watch
    Debounced,      \* watches whose debounce is not zero
    Observes,       \* what a watch makes of a content; None when its condition has no result
    ListOrder,      \* the watches in the order of thread and name
    MaxWorkers,     \* MAX_WORKERS
    QueueCapacity,  \* EVENT_QUEUE_CAPACITY
    MaxChanges,     \* bound: changes of each file
    MaxEpoch,       \* bound: pauses and resumes of each watch
    MaxCrashes      \* bound: deaths of the process

ASSUME CollectorConstants ==
    /\ None \notin Content \cup Dir
    /\ DirOf \in [Watch -> Dir] /\ Target \in [Watch -> Dir]
    /\ Refusable \subseteq Dir
    /\ Debounced \subseteq Watch
    /\ Observes \in [Watch -> [Content -> Content \cup {None}]]
    /\ ListOrder \in Seq(Watch) /\ IsInjective(ListOrder) /\ Range(ListOrder) = Watch
    /\ MaxWorkers \in Nat \ {0} /\ QueueCapacity \in Nat \ {0}
    /\ MaxChanges \in [Watch -> Nat] /\ MaxEpoch \in [Watch -> Nat] /\ MaxCrashes \in Nat

VARIABLES
    row,         \* managed_watches: mode, epoch, checkpoint
    reported,    \* the events ingested for each watch: previous and current sample
    running,     \* the receiver process
    runtime,     \* runtimes of the dispatcher
    job,         \* the sampling job of a watch, at most one
    registered,  \* registration counts of directories
    subscribed,  \* directories the system's file watcher reports
    alias,       \* the second directory registered for a watch
    queue,       \* reported paths, not received yet
    overflow,    \* event_overflow
    file,        \* the watched files
    changes,     \* bound: changes so far
    crashes,     \* bound: deaths so far
    fresh,       \* history: contents since the watch was last started or paused
    streak,      \* history: equal samples in a row, in this epoch
    unread       \* history: the file changed and no job tried to read it since

durable == <<row, reported>>
memory == <<running, runtime, job>>
native == <<registered, subscribed, alias, queue, overflow>>
history == <<fresh, streak, unread>>
outside == <<file, changes, crashes>>
vars == <<durable, memory, native, outside, history>>

-----------------------------------------------------------------------------
Mode == {"none", "enabled", "paused", "removed"}
NoRow == [mode |-> "none", epoch |-> 0, checkpoint |-> None]
NoCandidate == [sample |-> None, epoch |-> 0, ripe |-> FALSE]

\* due: next_due is not in the future.  A job's ripe is its candidate's when it began.
NoRuntime == [known |-> FALSE, active |-> FALSE, epoch |-> 0, dirty |-> FALSE,
              due |-> TRUE, candidate |-> NoCandidate, path |-> None]
NoJob == [at |-> "none", sample |-> None, ripe |-> FALSE, copy |-> NoRuntime]
NoStreak == [sample |-> None, length |-> 0]

Init ==
    /\ row = [w \in Watch |-> NoRow]
    /\ reported = [w \in Watch |-> <<>>]
    /\ running = FALSE
    /\ runtime = [w \in Watch |-> NoRuntime]
    /\ job = [w \in Watch |-> NoJob]
    /\ registered = [d \in Dir |-> 0] /\ subscribed = {}
    /\ alias = [w \in Watch |-> None]
    /\ queue = <<>> /\ overflow = FALSE
    /\ file \in [Watch -> Content]
    /\ changes = [w \in Watch |-> 0] /\ crashes = 0
    /\ fresh = [w \in Watch |-> {}]
    /\ streak = [w \in Watch |-> NoStreak]
    /\ unread = [w \in Watch |-> FALSE]

-----------------------------------------------------------------------------
(* The commands.                                                           *)

Began(w) ==
    /\ fresh' = [fresh EXCEPT ![w] = {file[w]}]
    /\ streak' = [streak EXCEPT ![w] = NoStreak]
    /\ UNCHANGED unread

watch_create(w) ==
    /\ row[w].mode = "none"
    /\ row' = [row EXCEPT ![w].mode = "enabled"]
    /\ Began(w)
    /\ UNCHANGED <<reported, memory, native, outside>>

\* pause, resume and remove; each begins a new epoch, also when repeated.
watch_action(w, mode) ==
    /\ row[w].mode \in {"enabled", "paused"}
    /\ mode \in {"enabled", "paused", "removed"}
    /\ row[w].epoch < MaxEpoch[w]
    /\ row' = [row EXCEPT ![w].mode = mode, ![w].epoch = @ + 1]
    /\ Began(w)
    /\ UNCHANGED <<reported, memory, native, outside>>

-----------------------------------------------------------------------------
(* The dispatcher.  Every turn of its loop takes one branch, then makes     *)
(* watches dirty after an overflow, and starts jobs.                       *)

InFlight(jobs) == {w \in Watch : jobs[w].at # "none"}

\* Wrong: no fallback when the system reports nothing.
ReadyWhenDirty(runtimes, jobs) ==
    {w \in Watch \ InFlight(jobs) : runtimes[w].active /\ runtimes[w].dirty}

Ready(runtimes, jobs) ==
    {w \in Watch \ InFlight(jobs) : runtimes[w].active /\ (runtimes[w].dirty \/ runtimes[w].due)}

\* Where the scan starts rotates: any of the ready ones may be first.
Starts(runtimes, jobs) ==
    LET room == MaxWorkers - Cardinality(InFlight(jobs))
        ready == Ready(runtimes, jobs) IN
    {some \in SUBSET ready : \/ Cardinality(some) = room
                             \/ some = ready /\ Cardinality(some) < room}

Turn(runtimes, jobs) ==
    LET swept == [w \in Watch |-> IF overflow /\ runtimes[w].active
                                  THEN [runtimes[w] EXCEPT !.dirty = TRUE] ELSE runtimes[w]] IN
    /\ overflow' = FALSE
    /\ \E some \in Starts(swept, jobs) :
         LET begun == [w \in Watch |-> IF w \in some
                                       THEN [swept[w] EXCEPT !.dirty = FALSE] ELSE swept[w]] IN
         /\ runtime' = begun
         /\ job' = [w \in Watch |-> IF w \in some
                       THEN [at |-> "reading", sample |-> None,
                             ripe |-> begun[w].candidate.ripe, copy |-> begun[w]] ELSE jobs[w]]

\* The registrations a turn works on.
Registry == [registered |-> registered, subscribed |-> subscribed, alias |-> alias]

\* release_registration: the last user unwatches the directory.
Release(reg, d) ==
    IF reg.registered[d] = 0 THEN reg
    ELSE [reg EXCEPT !.registered[d] = @ - 1,
                     !.subscribed = IF reg.registered[d] = 1 THEN @ \ {d} ELSE @]

ReleaseAlias(reg, w) ==
    IF reg.alias[w] = None THEN reg
    ELSE [Release(reg, reg.alias[w]) EXCEPT !.alias[w] = None]

\* The system may refuse to watch a directory; then nobody counts as its user.
Register(reg, d, refused) ==
    IF refused /\ reg.registered[d] = 0 /\ d \in Refusable THEN reg
    ELSE [reg EXCEPT !.registered[d] = @ + 1, !.subscribed = @ \cup {d}]

\* Wrong: a change that came during the job is forgotten.
MergedFromCopy(current, copy) == copy

\* The runtime after its job: what became dirty meanwhile stays dirty.
Merged(current, copy) == [copy EXCEPT !.dirty = @ \/ current.dirty]

\* Wrong: nothing covers the time before the registration.
CaughtUpNever(copy) == copy

\* A sample after the registration covers the changes before it.
CaughtUp(copy) == [copy EXCEPT !.dirty = TRUE]

\* A job is joined.  The copy of another epoch, or of a watch that is gone, is dropped.
Finish(w) ==
    LET copy == job[w].copy
        joined == [job EXCEPT ![w] = NoJob]
        keep(new) == Turn([runtime EXCEPT ![w] = Merged(@, new)], joined)
        aliased == copy.path # None /\ copy.path # DirOf[w] /\ alias[w] # copy.path IN
    /\ running
    /\ job[w].at = "done"
    /\ IF ~runtime[w].known \/ runtime[w].epoch # copy.epoch
       THEN Turn(runtime, joined) /\ UNCHANGED <<registered, subscribed, alias>>
       ELSE IF ~aliased
       THEN keep(copy) /\ UNCHANGED <<registered, subscribed, alias>>
       ELSE \E refused \in BOOLEAN :
              LET freed == ReleaseAlias(Registry, w)
                  reg == Register(freed, copy.path, refused) IN
              /\ registered' = reg.registered /\ subscribed' = reg.subscribed
              /\ IF reg = freed
                 THEN alias' = freed.alias /\ keep(copy)
                 ELSE alias' = [freed.alias EXCEPT ![w] = copy.path] /\ keep(CaughtUp(copy))
    /\ UNCHANGED <<durable, running, queue, outside, history>>

Listed == {w \in Watch : row[w].mode \in {"enabled", "paused"}}
IsActive(w) == row[w].mode = "enabled"
WasActive(w) == runtime[w].active
EpochChanged(w) == runtime[w].known /\ runtime[w].epoch # row[w].epoch

\* The runtime of a watch after the store was read; of one that is gone, none.
Reread(w) ==
    IF w \notin Listed THEN NoRuntime
    ELSE [runtime[w] EXCEPT
            !.known = TRUE, !.active = IsActive(w), !.epoch = row[w].epoch,
            !.dirty = @ \/ (IsActive(w) /\ (~WasActive(w) \/ EpochChanged(w))),
            !.due = @ \/ (IsActive(w) /\ EpochChanged(w)),
            !.candidate = IF EpochChanged(w) THEN NoCandidate ELSE @]

\* The registrations of a listed watch.  A resumed one releases what it does not hold.
Recounted(reg, w, refused) ==
    LET released == IF runtime[w].known /\ WasActive(w) # IsActive(w)
                    THEN Release(reg, DirOf[w]) ELSE reg
        freed == IF IsActive(w) THEN released ELSE ReleaseAlias(released, w) IN
    IF w \notin Listed THEN reg
    ELSE IF IsActive(w) /\ ~WasActive(w) THEN Register(freed, DirOf[w], w \in refused) ELSE freed

\* The registrations of a watch that is no longer listed.
Forget(reg, w) ==
    IF w \in Listed \/ ~runtime[w].known THEN reg
    ELSE ReleaseAlias(IF WasActive(w) THEN Release(reg, DirOf[w]) ELSE reg, w)

\* The registrations after the watches of the list, and then those that are gone.
Reregistered(refused) ==
    LET count == Len(ListOrder)
        after[n \in 0..2 * count] ==
            IF n = 0 THEN Registry
            ELSE IF n <= count THEN Recounted(after[n - 1], ListOrder[n], refused)
            ELSE Forget(after[n - 1], ListOrder[n - count]) IN
    after[2 * count]

\* The tick that reads the watches from the store.
Reload ==
    /\ running
    /\ Turn([w \in Watch |-> Reread(w)], job)
    /\ \E refused \in SUBSET Listed :
         LET reg == Reregistered(refused) IN
         /\ registered' = reg.registered
         /\ subscribed' = reg.subscribed
         /\ alias' = reg.alias
    /\ UNCHANGED <<durable, running, queue, outside, history>>

\* A reported path: the watch and the directory it was reported in.
Matches(r, w, event) == event[1] = w /\ event[2] \in {DirOf[w], r.path}

Receive ==
    /\ running
    /\ queue # <<>>
    /\ Turn([w \in Watch |-> IF runtime[w].known /\ Matches(runtime[w], w, Head(queue))
                THEN [runtime[w] EXCEPT !.dirty = TRUE] ELSE runtime[w]], job)
    /\ queue' = Tail(queue)
    /\ UNCHANGED <<durable, running, registered, subscribed, alias, outside, history>>

\* sleep_until next_due.
Timer ==
    /\ running
    /\ Ready(runtime, job) # {}
    /\ Cardinality(InFlight(job)) < MaxWorkers
    /\ Turn(runtime, job)
    /\ UNCHANGED <<durable, running, registered, subscribed, alias, queue, outside, history>>

-----------------------------------------------------------------------------
(* A job: process_watch on its copy of the runtime.                        *)

Done(w, copy) == job' = [job EXCEPT ![w] = [NoJob EXCEPT !.at = "done", !.copy = copy]]
NoLongerDue(copy) == [copy EXCEPT !.due = FALSE]
ReadNow(w) == unread' = [unread EXCEPT ![w] = FALSE]

\* The worker reads the file and then resolves its directory.  Without a result
\* of the condition next_due stays, or moves if the document cannot have one.
Sample(w) ==
    LET sample == Observes[w][file[w]]
        copy == [job[w].copy EXCEPT !.path = Target[w]] IN
    /\ job[w].at = "reading"
    /\ IF sample = None THEN Done(w, copy) \/ Done(w, NoLongerDue(copy))
       ELSE job' = [job EXCEPT ![w] = [@ EXCEPT !.at = "read", !.sample = sample, !.copy = copy]]
    /\ ReadNow(w)
    /\ UNCHANGED <<durable, running, runtime, native, outside, fresh, streak>>

\* read_timeout, changed_during_read, short_read: neither stored nor put off.
SampleUnreadable(w) ==
    /\ job[w].at = "reading"
    /\ Done(w, [job[w].copy EXCEPT !.path = Target[w]])
    /\ ReadNow(w)
    /\ UNCHANGED <<durable, running, runtime, native, outside, fresh, streak>>

\* The worker fails or exceeds SAMPLE_TIMEOUT, and is replaced.
SampleFails(w) ==
    /\ job[w].at = "reading"
    /\ Done(w, NoLongerDue(job[w].copy))
    /\ ReadNow(w)
    /\ UNCHANGED <<durable, running, runtime, native, outside, fresh, streak>>

\* Wrong: the sample of another epoch is committed.
MayCommitAnyEpoch(w, epoch) == row[w].mode = "enabled"

MayCommit(w, epoch) == row[w].epoch = epoch /\ row[w].mode = "enabled"

\* Wrong: the checkpoint moves although the event was refused.
CommitApart(w, epoch, sample, accepted) ==
    /\ row' = IF MayCommit(w, epoch) THEN [row EXCEPT ![w].checkpoint = sample] ELSE row
    /\ reported' = IF MayCommit(w, epoch) /\ accepted
         THEN [reported EXCEPT ![w] = Append(@, [previous |-> row[w].checkpoint, current |-> sample])]
         ELSE reported

\* commit_sample with an event, which ingest may refuse: both or nothing.
Commit(w, epoch, sample, accepted) ==
    IF MayCommit(w, epoch) /\ accepted
    THEN /\ row' = [row EXCEPT ![w].checkpoint = sample]
         /\ reported' = [reported EXCEPT ![w] =
                Append(@, [previous |-> row[w].checkpoint, current |-> sample])]
    ELSE UNCHANGED durable

Counted(w, epoch, sample) ==
    streak' = IF row[w].epoch # epoch THEN streak
              ELSE [streak EXCEPT ![w] = IF @.sample = sample THEN [@ EXCEPT !.length = 2]
                                         ELSE [sample |-> sample, length |-> 1]]

\* Wrong: a candidate outlives a return to the checkpoint.
AgainAsBeforeKept(copy) == copy

\* A sample equal to the checkpoint cancels the candidate.
AgainAsBefore(copy) == [copy EXCEPT !.candidate = NoCandidate]

\* From the sample to the end of the job.
Store(w, accepted) ==
    LET copy == job[w].copy
        sample == job[w].sample
        checkpoint == row[w].checkpoint
        candidate == copy.candidate
        none == [copy EXCEPT !.candidate = NoCandidate]
        same == candidate.sample = sample /\ candidate.epoch = copy.epoch IN
    /\ job[w].at = "read"
    /\ \/ /\ checkpoint = None
          /\ IF MayCommit(w, copy.epoch)
             THEN /\ row' = [row EXCEPT ![w].checkpoint = sample]
                  /\ Done(w, NoLongerDue(none))
             ELSE UNCHANGED row /\ Done(w, NoLongerDue(copy))
          /\ UNCHANGED reported
       \/ /\ checkpoint = sample
          /\ Done(w, NoLongerDue(AgainAsBefore(copy)))
          /\ UNCHANGED durable
       \/ /\ checkpoint \notin {None, sample} /\ w \notin Debounced
          /\ Commit(w, copy.epoch, sample, accepted)
          /\ Done(w, NoLongerDue(IF MayCommit(w, copy.epoch) /\ accepted THEN none ELSE copy))
       \/ /\ checkpoint \notin {None, sample} /\ w \in Debounced /\ ~same
          /\ Done(w, NoLongerDue([copy EXCEPT !.candidate =
                        [sample |-> sample, epoch |-> copy.epoch, ripe |-> FALSE]]))
          /\ UNCHANGED durable
       \/ /\ checkpoint \notin {None, sample} /\ w \in Debounced /\ same /\ ~job[w].ripe
          /\ Done(w, NoLongerDue(copy))
          /\ UNCHANGED durable
       \/ /\ checkpoint \notin {None, sample} /\ w \in Debounced /\ same /\ job[w].ripe
          /\ Commit(w, copy.epoch, sample, accepted)
          /\ Done(w, NoLongerDue(none))
    /\ Counted(w, copy.epoch, sample)
    /\ UNCHANGED <<running, runtime, native, outside, fresh, unread>>

-----------------------------------------------------------------------------
(* The files, the system's file watcher, time, and the process.            *)

\* notify_path: a report that finds the queue full leaves the overflow mark.
Send(events) ==
    IF Len(queue) + Len(events) <= QueueCapacity
    THEN queue' = queue \o events /\ UNCHANGED overflow
    ELSE queue' = SubSeq(queue \o events, 1, QueueCapacity) /\ overflow' = TRUE

\* A change is reported in the directory where it happens.  Whether also in
\* the one that is an alias of it depends on the system.
ReportsOf(w) ==
    LET real == IF Target[w] \in subscribed THEN << <<w, Target[w]>> >> ELSE <<>>
        other == IF DirOf[w] # Target[w] /\ DirOf[w] \in subscribed
                 THEN {<<>>, << <<w, DirOf[w]>> >>} ELSE {<<>>} IN
    {real \o o : o \in other}

Change(w, content) ==
    /\ changes[w] < MaxChanges[w]
    /\ content # file[w]
    /\ file' = [file EXCEPT ![w] = content]
    /\ changes' = [changes EXCEPT ![w] = @ + 1]
    /\ \E events \in ReportsOf(w) : Send(events)
    /\ fresh' = [fresh EXCEPT ![w] = @ \cup {content}]
    /\ unread' = [unread EXCEPT ![w] = TRUE]
    /\ UNCHANGED <<durable, memory, registered, subscribed, alias, crashes, streak>>

IntervalElapses(w) ==
    /\ runtime[w].known /\ ~runtime[w].due
    /\ runtime' = [runtime EXCEPT ![w].due = TRUE]
    /\ UNCHANGED <<durable, running, job, native, outside, history>>

Ripens(candidate) == candidate.sample # None /\ ~candidate.ripe

\* The debounce of a candidate, also during a job, which looks at the time it began.
DebounceElapses(w) ==
    /\ IF job[w].at = "none"
       THEN /\ Ripens(runtime[w].candidate)
            /\ runtime' = [runtime EXCEPT ![w].candidate.ripe = TRUE]
            /\ UNCHANGED job
       ELSE /\ Ripens(job[w].copy.candidate)
            /\ job' = [job EXCEPT ![w].copy.candidate.ripe = TRUE]
            /\ UNCHANGED runtime
    /\ UNCHANGED <<durable, running, native, outside, history>>

Die ==
    /\ running
    /\ crashes < MaxCrashes
    /\ crashes' = crashes + 1
    /\ running' = FALSE
    /\ runtime' = [w \in Watch |-> NoRuntime]
    /\ job' = [w \in Watch |-> NoJob]
    /\ registered' = [d \in Dir |-> 0] /\ subscribed' = {}
    /\ alias' = [w \in Watch |-> None]
    /\ queue' = <<>> /\ overflow' = FALSE
    /\ unread' = [w \in Watch |-> FALSE]
    /\ UNCHANGED <<durable, file, changes, fresh, streak>>

Start ==
    /\ ~running
    /\ running' = TRUE
    /\ UNCHANGED <<durable, runtime, job, native, outside, history>>

Work(w) ==
    \/ Sample(w) \/ SampleUnreadable(w) \/ SampleFails(w)
    \/ \E accepted \in BOOLEAN : Store(w, accepted)
    \/ Finish(w)

Dispatcher == Reload \/ Receive \/ Timer

Next ==
    \/ \E w \in Watch :
         \/ watch_create(w)
         \/ \E mode \in Mode : watch_action(w, mode)
         \/ \E content \in Content : Change(w, content)
         \/ Work(w)
         \/ IntervalElapses(w) \/ DebounceElapses(w)
    \/ Dispatcher
    \/ Die \/ Start

Spec == Init /\ [][Next]_vars

-----------------------------------------------------------------------------
(* Fairness: tokio serves every branch of the select and every job; each     *)
(* sample ends within SAMPLE_TIMEOUT.  That a sample succeeds, and that the  *)
(* inbox accepts an event, again and again, is the environment's part.       *)

Reports(w) == Store(w, TRUE) /\ reported' # reported

Fairness ==
    /\ WF_vars(Start) /\ WF_vars(Reload) /\ WF_vars(Receive) /\ WF_vars(Timer)
    /\ \A w \in Watch :
         /\ SF_vars(Sample(w)) /\ SF_vars(Reports(w))
         /\ WF_vars(SampleFails(w)) /\ WF_vars(Store(w, FALSE)) /\ WF_vars(Finish(w))
         /\ WF_vars(IntervalElapses(w)) /\ WF_vars(DebounceElapses(w))

FairSpec == Spec /\ Fairness

-----------------------------------------------------------------------------
(* Properties.                                                             *)

Samples == Content \cup {None}

\* Types of the variables.
TypeOK ==
    LET candidates == [sample : Samples, epoch : Nat, ripe : BOOLEAN]
        runtimes == [known : BOOLEAN, active : BOOLEAN, epoch : Nat, dirty : BOOLEAN,
                     due : BOOLEAN, candidate : candidates, path : Dir \cup {None}] IN
    /\ row \in [Watch -> [mode : Mode, epoch : Nat, checkpoint : Samples]]
    /\ \A w \in Watch : reported[w] \in Seq([previous : Content, current : Content])
    /\ running \in BOOLEAN
    /\ runtime \in [Watch -> runtimes]
    /\ job \in [Watch -> [at : {"none", "reading", "read", "done"}, sample : Samples,
                          ripe : BOOLEAN, copy : runtimes]]
    /\ registered \in [Dir -> Nat] /\ subscribed \subseteq Dir
    /\ alias \in [Watch -> Dir \cup {None}]
    /\ queue \in Seq(Watch \X Dir) /\ Len(queue) <= QueueCapacity
    /\ overflow \in BOOLEAN
    /\ file \in [Watch -> Content]
    /\ changes \in [Watch -> Nat] /\ crashes \in 0..MaxCrashes
    /\ fresh \in [Watch -> SUBSET Content]
    /\ streak \in [Watch -> [sample : Samples, length : 0..2]]
    /\ unread \in [Watch -> BOOLEAN]

\* The events of a watch are a chain without gaps: each begins with the sample
\* the one before ended with, and the checkpoint is where the last one ended,
\* over pauses, deaths, refused events and jobs that outlive their epoch.
EventsFormChain ==
    \A w \in Watch :
        LET events == reported[w] IN
        /\ \A n \in 1..Len(events) : events[n].previous # events[n].current
        /\ \A n \in 2..Len(events) : events[n].previous = events[n - 1].current
        /\ events # <<>> => row[w].checkpoint = events[Len(events)].current

\* An event says what the file contained since the watch was last started or
\* resumed: a sample read before a pause is not reported after it.
ReportedSinceResume ==
    [][\A w \in Watch : reported'[w] # reported[w] =>
         \E content \in fresh[w] : Observes[w][content] = row'[w].checkpoint]_vars

\* A watch with a debounce reports only what its last two samples in this epoch
\* agree on.
DebouncedIsSeenTwice ==
    [][\A w \in Debounced : reported'[w] # reported[w] =>
         streak'[w] = [sample |-> row'[w].checkpoint, length |-> 2]]_vars

\* The system reports this active watch's directory, under a name it knows.  Of
\* several watches of one directory, one may lack its registration (refused, or
\* given back twice by the other) until another's replaces it: they are left out.
Followed(w) ==
    /\ runtime[w].active
    /\ Target[w] \in subscribed
    /\ Target[w] \in {DirOf[w], alias[w]}
    /\ \A v \in Watch \ {w} : {DirOf[v], Target[v]} \cap {DirOf[w], Target[w]} = {}

\* Once a watch is followed, no change waits for the interval: it is in the queue,
\* or the queue overflowed, or the watch is dirty, or its job has still to read.
\* Over jobs that end meanwhile, reloads, and changes before the registration.
ChangeIsNoticed ==
    \A w \in Watch : (unread[w] /\ Followed(w)) =>
        \/ overflow \/ runtime[w].dirty
        \/ \E n \in 1..Len(queue) : Matches(runtime[w], w, queue[n])
        \/ job[w].at = "reading"

\* A change that lasts is reported in the end: by the interval when the system's
\* report was lost, after a death, a failed sample or a refused event.
LastingChangeIsReported ==
    \A w \in Watch : \A sample \in Content :
        <>[](row[w].mode = "enabled" /\ Observes[w][file[w]] = sample)
            => <>[](row[w].checkpoint = sample)
=============================================================================
