---- MODULE Startup ----
(***************************************************************************)
(* The daemon's start: main() up to runThreads, with the configuration     *)
(* file on its way from lines (readConfig, parseConfigLine) to key and     *)
(* value pairs and to the values the server uses (buildLocalConfig).       *)
(*                                                                         *)
(* A pair is its key, and a value is the position of its pair in the file. *)
(* Whatever fails ends the start with main's return; what C leaves         *)
(* undefined is a choice between going on and a crash, in crashed.         *)
(***************************************************************************)
EXTENDS Integers, Sequences, FiniteSets

CONSTANTS
    Required,       \* the keys that buildLocalConfig counts (nine)
    dnsip, logFile, \* two of them, whose values main() and createThreads read
    forwarder,      \* the key that may be left out
    unknown,        \* any other key
    Chunk,          \* places by which the table of pairs grows (16)
    MaxLines,       \* bound: lines of the file
    MaxFailures     \* bound: calls that fail

Key == Required \cup {forwarder, unknown}

ASSUME StartupAssumption ==
    /\ IsFiniteSet(Required) /\ dnsip \in Required /\ logFile \in Required
    /\ forwarder \notin Required /\ unknown \notin Required /\ forwarder # unknown
    /\ Chunk \in Nat \ {0}
    /\ MaxLines \in Nat /\ MaxFailures \in Nat

Unset == 0      \* no pair's position: the value is NULL, or was never assigned

VARIABLES
    pc,             \* where main() is
    lines,          \* lines of the file that were read
    malformed,      \* one of them is neither a pair nor empty nor a comment
    pairs, cmax,    \* config->data up to cpos, and its size
    len,            \* config->len, -1 until it is assigned
    i, found,       \* buildLocalConfig
    lconfig,        \* the values found, by key
    logOpen,        \* the log file is open: the pointer is not NULL
    failures,       \* calls that failed, against their bound
    signalled,      \* a signal came before the threads were there
    crashed

file   == <<lines, malformed, pairs, cmax, len>>
build  == <<i, found, lconfig>>
events == <<signalled, crashed>>
vars   == <<pc, file, build, logOpen, failures, events>>

Init ==
    /\ pc = "openConfig"
    /\ lines = 0 /\ malformed = FALSE /\ pairs = <<>> /\ cmax = Chunk /\ len = -1
    /\ i = 1 /\ found = 0 /\ lconfig = [k \in Key |-> Unset]
    /\ logOpen = FALSE
    /\ failures = 0 /\ signalled = FALSE /\ crashed = FALSE

Succeeds == UNCHANGED failures
Fails    == failures < MaxFailures /\ failures' = failures + 1

Return == pc' = "returned"

\* Frees len pairs.  As long as len is not assigned it is any number, and any memory.
freeConfig == crashed' \in {crashed, len = -1 \/ crashed}

----------------------------------------------------------------------------
(* readConfig                                                              *)

\* fopen, and the memory for the structure and for the first table.
OpenConfig ==
    /\ pc = "openConfig"
    /\ \/ Succeeds /\ pc' = "readLine"
       \/ Fails /\ Return
    /\ UNCHANGED <<file, build, logOpen, events>>

\* An empty line or a comment.
SkipLine ==
    /\ pc = "readLine" /\ lines < MaxLines
    /\ lines' = lines + 1
    /\ UNCHANGED <<pc, malformed, pairs, cmax, len, build, logOpen, failures, events>>

RefuseLine ==
    /\ pc = "readLine" /\ lines < MaxLines
    /\ lines' = lines + 1 /\ malformed' = TRUE
    /\ freeConfig /\ Return
    /\ UNCHANGED <<pairs, cmax, len, build, logOpen, failures, signalled>>

\* Mutant: the table grows when it is too small already.
AddPairLate ==
    /\ pc = "readLine" /\ lines < MaxLines
    /\ lines' = lines + 1
    /\ \E k \in Key : pairs' = Append(pairs, k)
    /\ cmax' = IF Len(pairs') > cmax THEN cmax + Chunk ELSE cmax
    /\ Succeeds
    /\ UNCHANGED <<pc, malformed, len, build, logOpen, events>>

\* Key and value are copied into the table, which grows when it is full then.
AddPair ==
    /\ pc = "readLine" /\ lines < MaxLines
    /\ lines' = lines + 1
    /\ \E k \in Key : pairs' = Append(pairs, k)
    /\ cmax' = IF Len(pairs') = cmax THEN cmax + Chunk ELSE cmax
    /\ Succeeds
    /\ UNCHANGED <<pc, malformed, len, build, logOpen, events>>

\* No memory for a pair or for the larger table.
AddPairFails ==
    /\ pc = "readLine" /\ lines < MaxLines
    /\ lines' = lines + 1
    /\ Fails /\ freeConfig /\ Return
    /\ UNCHANGED <<malformed, pairs, cmax, len, build, logOpen, signalled>>

\* Mutant: len is not assigned.
EndOfFileNoLen ==
    /\ pc = "readLine"
    /\ \/ Succeeds /\ pc' = "build" /\ cmax' = Len(pairs)
       \/ Fails /\ Return /\ UNCHANGED cmax
    /\ UNCHANGED <<lines, malformed, pairs, len, build, logOpen, events>>

\* The table gets its final size.  For no pair at all realloc may return NULL.
EndOfFile ==
    /\ pc = "readLine"
    /\ \/ Succeeds /\ pc' = "build" /\ cmax' = Len(pairs) /\ len' = Len(pairs)
       \/ pairs = <<>> /\ Succeeds /\ Return /\ UNCHANGED <<cmax, len>>
       \/ Fails /\ Return /\ UNCHANGED <<cmax, len>>
    /\ UNCHANGED <<lines, malformed, pairs, build, logOpen, events>>

readConfig ==
    OpenConfig \/ SkipLine \/ RefuseLine \/ AddPair \/ AddPairFails \/ EndOfFile

----------------------------------------------------------------------------
(* buildLocalConfig                                                        *)

\* Mutant: a key that is not known is not passed over.
BuildPairStuck ==
    /\ pc = "build" /\ i <= len
    /\ i' = IF pairs[i] = unknown THEN i ELSE i + 1
    /\ lconfig' = IF pairs[i] = unknown THEN lconfig ELSE [lconfig EXCEPT ![pairs[i]] = i]
    /\ found' = IF pairs[i] \in Required THEN found + 1 ELSE found
    /\ UNCHANGED <<pc, file, logOpen, failures, events>>

\* Mutant: the first pair of a key is the one that counts.
BuildPairFirst ==
    /\ pc = "build" /\ i <= len
    /\ i' = i + 1
    /\ lconfig' = IF pairs[i] = unknown \/ lconfig[pairs[i]] # Unset THEN lconfig
                  ELSE [lconfig EXCEPT ![pairs[i]] = i]
    /\ found' = IF pairs[i] \in Required THEN found + 1 ELSE found
    /\ UNCHANGED <<pc, file, logOpen, failures, events>>

BuildPair ==
    /\ pc = "build" /\ i <= len
    /\ i' = i + 1
    /\ lconfig' = IF pairs[i] = unknown THEN lconfig ELSE [lconfig EXCEPT ![pairs[i]] = i]
    /\ found' = IF pairs[i] \in Required THEN found + 1 ELSE found
    /\ UNCHANGED <<pc, file, logOpen, failures, events>>

BuildEnd ==
    /\ pc = "build" /\ i > len
    /\ IF found = Cardinality(Required)
       THEN pc' = "openLog" /\ UNCHANGED crashed
       ELSE Return /\ freeConfig
    /\ UNCHANGED <<file, build, logOpen, failures, signalled>>

buildLocalConfig == BuildPair \/ BuildEnd

----------------------------------------------------------------------------
(* The rest of main()                                                      *)

\* A log file that cannot be opened, or has no name, is reported, and the start
\* goes on.
OpenLog ==
    /\ pc = "openLog" /\ pc' = "daemon"
    /\ \/ Succeeds /\ logOpen' = (lconfig[logFile] # Unset)
       \/ Fails /\ UNCHANGED logOpen
    /\ UNCHANGED <<file, build, events>>

\* The error branch closes the log file whether it is open or not.
makeDeamon ==
    /\ pc = "daemon"
    /\ \/ Succeeds /\ pc' = "iniLib" /\ UNCHANGED <<logOpen, crashed>>
       \/ /\ Fails /\ Return /\ logOpen' = FALSE
          /\ crashed' = (crashed \/ ~logOpen)
    /\ UNCHANGED <<file, build, signalled>>

\* The database and its zone names; then the forwarder is copied, given or not,
\* into memory that is not tested either.
iniDNSlib ==
    /\ pc = "iniLib"
    /\ \/ /\ Succeeds /\ pc' = "createThreads"
          /\ crashed' = (crashed \/ lconfig[forwarder] = Unset)
       \/ /\ Fails /\ Return
          /\ crashed' \in {crashed, TRUE}
    /\ UNCHANGED <<file, build, logOpen, signalled>>

\* sem_init and createThreads, which copies dnsIP: a random pointer if it was not
\* in the file, for buildLocalConfig does not initialise it.
createThreads ==
    /\ pc = "createThreads"
    /\ \/ /\ Succeeds /\ pc' = "running"
          /\ crashed' \in {crashed, lconfig[dnsip] = Unset \/ crashed}
       \/ /\ Fails /\ Return
          /\ crashed' \in {crashed, TRUE}
    /\ UNCHANGED <<file, build, logOpen, signalled>>

\* exitProgram before there are threads: it writes to a log file that is perhaps not
\* open, and joins threads that were never created.  What follows is not modelled.
Signal ==
    /\ pc \notin {"running", "returned"}
    /\ signalled' = TRUE /\ crashed' = TRUE
    /\ UNCHANGED <<pc, file, build, logOpen, failures>>

Main == readConfig \/ buildLocalConfig \/ OpenLog \/ makeDeamon \/ iniDNSlib \/ createThreads

Next == ~crashed /\ (Main \/ Signal)

\* The main thread is scheduled.
Spec == Init /\ [][Next]_vars /\ WF_vars(Main /\ ~crashed)

----------------------------------------------------------------------------
(* Properties.                                                             *)

\* Every variable has its type, and the parts of the configuration have their sizes.
TypeOK ==
    /\ pc \in {"openConfig", "readLine", "build", "openLog", "daemon", "iniLib",
               "createThreads", "running", "returned"}
    /\ lines \in 0..MaxLines /\ malformed \in BOOLEAN
    /\ pairs \in Seq(Key) /\ Len(pairs) <= lines /\ cmax \in Nat
    /\ len \in {-1, Len(pairs)}
    /\ i \in 1..(Len(pairs) + 1) /\ found \in 0..(i - 1)
    /\ lconfig \in [Key -> 0..Len(pairs)]
    /\ logOpen \in BOOLEAN /\ failures \in 0..MaxFailures
    /\ signalled \in BOOLEAN /\ crashed \in BOOLEAN

\* Whenever a line is parsed there is a place in the table for its pair: the table
\* grows after the last place was used, and before it is needed.
PairsFitTable == pc = "readLine" => Len(pairs) < cmax

Positions(k, n) == {j \in 1..n : pairs[j] = k}

LastPairWins ==
    \A k \in Key \ {unknown} :
        \/ Positions(k, i - 1) = {} /\ lconfig[k] = Unset
        \/ /\ lconfig[k] \in Positions(k, i - 1)
           /\ \A j \in Positions(k, i - 1) : j <= lconfig[k]

NoKeyTwice == \A j, m \in DOMAIN pairs : pairs[j] = pairs[m] /\ pairs[j] \in Required => j = m

Started == pc \in {"openLog", "daemon", "iniLib", "createThreads", "running"}

StartsComplete ==
    Started /\ NoKeyTwice => \A k \in Required : lconfig[k] # Unset

\* The server uses the last value of a key, and none where there is no pair; and though
\* buildLocalConfig only counts ("0 : Alles vorhanden", main.c:129), for files with no
\* key twice that is enough: the server starts with all values it requires.
ValuesAreRead == LastPairWins /\ StartsComplete

WellFormed == ~malformed /\ NoKeyTwice /\ \E j \in DOMAIN pairs : pairs[j] = forwarder

\* A start never crashes on a file in order, if no call fails and no signal comes.
CleanStart == crashed => failures > 0 \/ signalled \/ ~WellFormed

Valid == WellFormed /\ \A k \in Required : Positions(k, Len(pairs)) # {}

\* With such a file, if it is complete as well, the server does start.
ValidFileStarts ==
    (pc = "build" /\ Valid) ~> (pc = "running" \/ failures > 0 \/ signalled)
====
