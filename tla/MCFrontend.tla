----------------------------- MODULE MCFrontend -----------------------------
(***************************************************************************)
(* The parts of the frontend, each on its own small instance.  A behaviour *)
(* is one of the chosen part; the variables of the others keep a constant  *)
(* value.  Two parts are taken with their theorems, which FrontendProofs   *)
(* cites; it proves those of Ancestry and Coordinator itself.              *)
(***************************************************************************)
EXTENDS Naturals, Sequences, FiniteSets, TLC

CONSTANTS
    Part,                              \* the parts to explore
    c1, n1, k1, k2, u1, u2, None,  \* Session and Ancestry
    AncestryCtx, AncestryName, AncestryUpdate, AncestrySetting, Certified, Policies,
    AncestryGroups, AncestryObjects, AncestryBytes, AncestryMinted, AncestryStates, AncestryGeneration,
    e1, e2, Faults, MaxCommands,       \* Recorder
    CoordinatorJob, CoordinatorFaults, MaxCache, MaxRequests, MaxSends   \* Coordinator

VARIABLES
    part,
    session, call,                                   \* Session
    durable, index, payload, plan,                   \* Ancestry
    disk, client, stmt, issued,                      \* Recorder
    pc, jobs, registry, failing, serving, cache, sent, told, begun, done, twice,   \* Coordinator
    service, terminal, frame, adapter, shown, given,          \* Statements
    input, buffer, ran, ending                       \* Input

sessionVars == <<session, call>>
ancestryVars == <<durable, index, payload, plan>>
recorderVars == <<disk, client, stmt, issued>>
coordinatorVars == <<pc, jobs, registry, failing, serving, cache, sent, told, begun, done, twice>>
statementVars == <<service, terminal, frame, adapter, shown, given>>
inputVars == <<input, buffer, ran, ending>>
vars == <<part, sessionVars, ancestryVars, recorderVars, coordinatorVars, statementVars, inputVars>>

\* bytes in units: method memory is larger than a physical candidate
Size == [k \in {"physical", "state", "history", "report"} |-> IF k \in {"state", "history"} THEN 2 ELSE 1]

S == INSTANCE SessionProofs WITH
        Ctx <- {c1}, Name <- {n1}, Update <- {u1}, Setting <- {k1, k2}, SizeOf <- Size,
        MaxObjects <- 2, MaxBytes <- 6, MaxMinted <- 4, MaxRevision <- 5

A == INSTANCE Ancestry WITH
        session <- durable, Ctx <- AncestryCtx, Name <- AncestryName, Update <- AncestryUpdate,
        Setting <- AncestrySetting, SizeOf <- Size, Groups <- AncestryGroups,
        MaxObjects <- AncestryObjects, MaxBytes <- AncestryBytes, MaxMinted <- AncestryMinted,
        MaxStates <- AncestryStates, MaxGeneration <- AncestryGeneration

\* keep what is recent or not, and one or two states of undo
SomePolicies == {[keep |-> 0, depth |-> 1], [keep |-> 1, depth |-> 2]}

R == INSTANCE RecorderProofs WITH Experiment <- {e1, e2}

C == INSTANCE Coordinator WITH Job <- CoordinatorJob, Faults <- CoordinatorFaults

\* Statements that are adopted, fail in each way, or leave; alone, and between
\* two others.
SomeStatements ==
    {<<"change">>, <<"change", "change">>, <<"change", "partial">>, <<"read", "change", "refused">>,
     <<"change", "raises">>, <<"change", "key">>, <<"exit">>, <<"exit", "change">>,
     <<"change", "detach">>, <<"shutdown">>}
SomeBatches ==
    {<<<<"unreadable">>>>} \cup {<<s>> : s \in SomeStatements}
        \cup {<<<<"change", "change">>, s, <<"change">>>> : s \in SomeStatements}

T == INSTANCE Statements WITH 
        issued <- given, Batches <- SomeBatches, MaxCommands <- MaxCommands + 1,
        Typed <- {"read", "change", "refused", "detach", "shutdown"}

\* Several statements on a line and a statement on several, semicolons within
\* brackets, what does not parse or frame or fit, and words of the frontend, alone
\* and within a statement.
I == INSTANCE Input WITH
        Limit <- 8,
        Typing <- {
            <<<<"a", ";", "b", ";">>>>, <<<<":help">>>>, <<<<"a", "?", ";", "b", ";">>>>,
            <<<<"a", "(", ";">>, <<"b", ")", ";", "c">>, <<";">>>>,
            <<<<":exit">>, <<"a", ";">>, <<"b", ";">>>>,
            <<<<"exit">>, <<"a", ";", "b">>, <<":help">>, <<";", ";">>>>,
            <<<<"a", ")", ";">>, <<"b", ";", "c">>, <<>>>>,
            <<<<"a", "'", ";">>, <<":what">>, <<"b", ";">>, <<"c", ";">>>>,
            <<<<"a", "(">>, <<"b", ";", "c", ";", "d", ";", "e", ")", ";">>, <<>>>>}

---------------------------------------------------------------------------
Init ==
    /\ part \in Part
    /\ IF part = "session" THEN S!Init ELSE session = None /\ call = S!Idle
    /\ IF part = "ancestry" THEN A!Init
       ELSE durable = None /\ index = None /\ payload = None /\ plan = None
    /\ IF part = "recorder" THEN R!Init
       ELSE disk = None /\ client = None /\ stmt = None /\ issued = None
    /\ IF part = "coordinator" THEN C!Init
       ELSE /\ pc = None /\ jobs = None /\ registry = None /\ failing = None /\ serving = None
            /\ cache = None /\ sent = None /\ told = None /\ begun = None /\ done = None
            /\ twice = None
    /\ IF part = "statements" THEN T!Init
       ELSE /\ service = None /\ terminal = None /\ frame = None /\ adapter = None
            /\ shown = None /\ given = None
    /\ IF part = "input" THEN I!Init
       ELSE input = None /\ buffer = None /\ ran = None /\ ending = None

SessionStep ==
    part = "session" /\ S!Next
    /\ UNCHANGED <<part, ancestryVars, recorderVars, coordinatorVars, statementVars, inputVars>>
AncestryStep ==
    part = "ancestry" /\ A!Next
    /\ UNCHANGED <<part, sessionVars, recorderVars, coordinatorVars, statementVars, inputVars>>
RecorderStep ==
    part = "recorder" /\ R!Next
    /\ UNCHANGED <<part, sessionVars, ancestryVars, coordinatorVars, statementVars, inputVars>>
CoordinatorStep ==
    part = "coordinator" /\ C!Next
    /\ UNCHANGED <<part, sessionVars, ancestryVars, recorderVars, statementVars, inputVars>>
StatementStep ==
    part = "statements" /\ T!Next
    /\ UNCHANGED <<part, sessionVars, ancestryVars, recorderVars, coordinatorVars, inputVars>>
InputStep ==
    part = "input" /\ I!Next
    /\ UNCHANGED <<part, sessionVars, ancestryVars, recorderVars, coordinatorVars, statementVars>>

Next == SessionStep \/ AncestryStep \/ RecorderStep \/ CoordinatorStep \/ StatementStep \/ InputStep

Spec == Init /\ [][Next]_vars

---------------------------------------------------------------------------
\* No eviction, release or update drops an object that a name or a head of the
\* foreground session refers to, and what is retained stays within the limits
\* (Session).
RetentionSafe == part = "session" => S!ProtectedKept /\ S!RetentionBounded
\* A method state is only continued where it was made (Session).
ResumesOwnMemory == part = "session" => S!ResumesOwnMemory
\* A call commits only against the session it read (Session).
CommitsWhatItRead == S!CommitsWhatItRead

\* Redo walks back down the ancestry that undo walked up (Ancestry).
RedoIsTheWayBack == part = "ancestry" => A!RedoIsTheWayBack
\* The payload of every head and pin stays available (Ancestry).
ActiveAvailable == part = "ancestry" => A!ActiveAvailable
\* Opening an experiment again restores the contexts it was closed with (Ancestry).
ReopenGivesBack == A!ReopenGivesBack
\* A durable context continues method memory only where it was made (Ancestry).
ResumesDurableMemory == part = "ancestry" => A!ResumesOwnMemory

\* Memory and the committed index agree between statements (Recorder).
SessionIsCommitted == part = "recorder" => R!SessionIsCommitted
\* Every journal stays readable by the strict reader (Recorder).
JournalReadable == part = "recorder" => R!JournalReadable
\* Job actions take effect behind a recorded success only (Recorder).
JobsFollowOutcome == part = "recorder" => R!JobsFollowOutcome
\* A plan without blockers lists every command its index needs (Recorder).
PlansRebuild == part = "recorder" => R!PlansRebuild

\* A terminal status given to a client survives crashes and restarts (Coordinator).
ToldIsDurable == part = "coordinator" => C!ToldIsDurable
\* No job is started twice across restarts, and a remembered request is not
\* executed again (Coordinator).
NothingTwice == part = "coordinator" => C!NothingTwice

=============================================================================
