---- MODULE StartupProofs ----
(***************************************************************************)
(* Proofs about Startup, for every set of required keys, every length of   *)
(* the file and every number of failures.                                  *)
(***************************************************************************)
EXTENDS Startup, FiniteSetTheorems, TLAPS

\* The places of the required keys among the first n pairs.
Hits(n) == {j \in 1..n : pairs[j] \in Required}

Reading  == pc \in {"openConfig", "readLine"} =>
                /\ i = 1 /\ found = 0 /\ len = -1
                /\ lconfig = [k \in Key |-> Unset]
Opening  == pc = "openConfig" => pairs = <<>> /\ cmax = Chunk
Building == pc = "build" => len = Len(pairs)
Counted  == found = Cardinality(Hits(i - 1))
Complete == Started => found = Cardinality(Required) /\ i = Len(pairs) + 1

Flags == malformed \in BOOLEAN /\ logOpen \in BOOLEAN /\ signalled \in BOOLEAN
         /\ crashed \in BOOLEAN

\* The inductive invariant.
Inv ==
    /\ TypeOK /\ PairsFitTable /\ LastPairWins
    /\ Reading /\ Opening /\ Building /\ Counted /\ Complete

LEMMA Initial == Init => Inv
<1> SUFFICES ASSUME Init PROVE Inv
    OBVIOUS
<1> USE StartupAssumption
<1>1. Hits(i - 1) = {}
      BY DEF Init, Hits
<1>2. Counted
      BY <1>1, FS_EmptySet DEF Init, Counted
<1>3. \A k \in Key : Positions(k, i - 1) = {} /\ lconfig[k] = Unset
      BY DEF Init, Positions
<1>4. LastPairWins
      BY <1>3 DEF LastPairWins
<1>5. TypeOK
  <2>1. pairs \in Seq(Key) /\ Len(pairs) = 0 /\ i \in 1..1 /\ found \in 0..(i - 1)
        BY DEF Init
  <2>2. lconfig \in [Key -> 0..Len(pairs)]
        BY <2>1 DEF Init, Unset
  <2>3. lines \in 0..MaxLines /\ failures \in 0..MaxFailures /\ cmax \in Nat
        BY DEF Init
  <2>4. Flags
        BY DEF Init, Flags
  <2>5. Len(pairs) <= lines /\ len \in {-1, Len(pairs)} /\ i \in 1..(Len(pairs) + 1)
        BY <2>1 DEF Init
  <2>6. pc = "openConfig"
        BY DEF Init
  <2> QED BY <2>1, <2>2, <2>3, <2>4, <2>5, <2>6 DEF TypeOK, Flags
<1> QED BY <1>2, <1>4, <1>5 DEF Init, Inv, PairsFitTable, Reading, Opening, Building, Complete, Started

\* The flags stay flags.
LEMMA FlagsStep ==
    ASSUME Inv, [Next]_vars
    PROVE  malformed' \in BOOLEAN /\ logOpen' \in BOOLEAN /\ signalled' \in BOOLEAN
           /\ crashed' \in BOOLEAN
<1>1. Flags
      BY DEF Inv, TypeOK, Flags
<1>2. CASE readConfig
      BY <1>1, <1>2 DEF Flags, readConfig, OpenConfig, SkipLine, RefuseLine, AddPair, AddPairFails,
                    EndOfFile, freeConfig, file, events
<1>3. CASE buildLocalConfig
      BY <1>1, <1>3 DEF Flags, buildLocalConfig, BuildPair, BuildEnd, freeConfig, file, events
<1>4. CASE OpenLog \/ makeDeamon
      BY <1>1, <1>4 DEF Flags, OpenLog, makeDeamon, file, events
<1>5. CASE iniDNSlib \/ createThreads
      BY <1>1, <1>5 DEF Flags, iniDNSlib, createThreads, file, events
<1>6. CASE Signal \/ UNCHANGED vars
      BY <1>1, <1>6 DEF Flags, Signal, vars, file, events
<1> QED BY <1>2, <1>3, <1>4, <1>5, <1>6 DEF Next, Main

\* The count of failures stays within its bound.
LEMMA FailuresStep ==
    ASSUME Inv, [Next]_vars
    PROVE  failures' \in 0..MaxFailures
<1>1. Succeeds \/ Fails
  <2>1. CASE readConfig
        BY <2>1 DEF readConfig, OpenConfig, SkipLine, RefuseLine, AddPair, AddPairFails, EndOfFile,
                    Succeeds
  <2>2. CASE buildLocalConfig
        BY <2>2 DEF buildLocalConfig, BuildPair, BuildEnd, Succeeds
  <2>3. CASE OpenLog
        BY <2>3 DEF OpenLog
  <2>4. CASE makeDeamon \/ iniDNSlib \/ createThreads
        BY <2>4 DEF makeDeamon, iniDNSlib, createThreads
  <2>5. CASE Signal \/ UNCHANGED vars
        BY <2>5 DEF Signal, vars, Succeeds
  <2> QED BY <2>1, <2>2, <2>3, <2>4, <2>5 DEF Next, Main
<1> QED BY <1>1, StartupAssumption DEF Inv, TypeOK, Fails, Succeeds

\* A step that changes neither the pairs nor what buildLocalConfig found.
LEMMA QuietStep ==
    ASSUME Inv, [Next]_vars, UNCHANGED build, pairs' = pairs,
           lines' \in lines..MaxLines, cmax' \in Nat, len' \in {-1, Len(pairs)},
           pc' \in {"openConfig", "readLine", "build", "openLog", "daemon", "iniLib",
                    "createThreads", "running", "returned"},
           PairsFitTable', Reading', Opening', Building', Complete'
    PROVE  Inv'
<1>1. i' = i /\ found' = found /\ lconfig' = lconfig
      BY DEF build
<1>2. LastPairWins'
      BY <1>1 DEF Inv, LastPairWins, Positions
<1>3. Counted'
      BY <1>1 DEF Inv, Counted, Hits
<1>4. TypeOK'
  <2>1. Len(pairs) <= lines' /\ lines' \in 0..MaxLines
        BY StartupAssumption DEF Inv, TypeOK
  <2> QED BY <1>1, <2>1, FlagsStep, FailuresStep DEF Inv, TypeOK
<1> QED BY <1>2, <1>3, <1>4 DEF Inv

\* A pair is added: nothing was counted yet.
LEMMA AddPairStep ==
    ASSUME Inv, [Next]_vars, AddPair
    PROVE  Inv'
<1> USE StartupAssumption
<1>1. /\ pc = "readLine" /\ pc' = "readLine" /\ lines' = lines + 1 /\ lines < MaxLines
      /\ i = 1 /\ found = 0 /\ len = -1 /\ lconfig = [k \in Key |-> Unset]
      /\ i' = 1 /\ found' = 0 /\ len' = -1 /\ lconfig' = lconfig
      /\ Len(pairs) < cmax /\ cmax \in Nat
      BY DEF AddPair, Inv, Reading, PairsFitTable, TypeOK, build
<1>2. PICK k \in Key : pairs' = Append(pairs, k)
      BY DEF AddPair
<1>3. pairs \in Seq(Key) /\ Len(pairs) <= lines /\ lines \in 0..MaxLines
      BY DEF Inv, TypeOK
<1>4. pairs' \in Seq(Key) /\ Len(pairs') = Len(pairs) + 1
      BY <1>2, <1>3
<1>5. cmax' = IF Len(pairs') = cmax THEN cmax + Chunk ELSE cmax
      BY DEF AddPair
<1>6. PairsFitTable' /\ cmax' \in Nat
      BY <1>1, <1>3, <1>4, <1>5 DEF PairsFitTable
<1>7. TypeOK'
  <2>1. Len(pairs') <= lines' /\ lines' \in 0..MaxLines
        BY <1>1, <1>3, <1>4
  <2>2. lconfig' \in [Key -> 0..Len(pairs')] /\ i' \in 1..(Len(pairs') + 1) /\ found' \in 0..(i' - 1)
        BY <1>1, <1>4 DEF Unset
  <2> QED BY <1>1, <1>4, <1>6, <2>1, <2>2, FlagsStep, FailuresStep DEF TypeOK
<1>8. Counted'
  <2>1. Hits(i - 1)' = {}
        BY <1>1 DEF Hits
  <2> QED BY <1>1, <2>1, FS_EmptySet DEF Counted
<1>9. LastPairWins'
  <2>1. \A m \in Key : Positions(m, i - 1)' = {} /\ lconfig'[m] = Unset
        BY <1>1 DEF Positions
  <2> QED BY <2>1 DEF LastPairWins
<1> QED BY <1>1, <1>6, <1>7, <1>8, <1>9 DEF Inv, Reading, Opening, Building, Complete, Started

\* A pair is looked at.
LEMMA BuildPairStep ==
    ASSUME Inv, [Next]_vars, BuildPair
    PROVE  Inv'
<1> USE StartupAssumption
<1>1. /\ pc = "build" /\ pc' = "build" /\ UNCHANGED <<pairs, cmax, len, lines>>
      /\ len = Len(pairs) /\ i <= len /\ i' = i + 1
      /\ pairs \in Seq(Key) /\ Len(pairs) \in Nat /\ i \in 1..Len(pairs)
      BY DEF BuildPair, Inv, TypeOK, Building, file
<1>2. pairs[i] \in Key
      BY <1>1
<1>3. /\ lconfig \in [Key -> 0..Len(pairs)] /\ found \in 0..(i - 1)
      /\ lconfig' = IF pairs[i] = unknown THEN lconfig ELSE [lconfig EXCEPT ![pairs[i]] = i]
      /\ found' = IF pairs[i] \in Required THEN found + 1 ELSE found
      BY DEF BuildPair, Inv, TypeOK
<1>4. TypeOK'
  <2>1. lconfig' \in [Key -> 0..Len(pairs)]
        BY <1>1, <1>2, <1>3
  <2>2. i' \in 1..(Len(pairs) + 1) /\ found' \in 0..(i' - 1)
        BY <1>1, <1>3
  <2> QED BY <1>1, <2>1, <2>2, FlagsStep, FailuresStep DEF Inv, TypeOK
<1>5. Counted'
  <2>1. (i + 1) - 1 = i /\ 1..i = 1..(i - 1) \cup {i} /\ i \notin 1..(i - 1)
        BY <1>1
  <2>2. Hits(i - 1)' = Hits(i) /\ Hits(i) = {j \in 1..i : pairs[j] \in Required}
        BY <1>1, <2>1 DEF Hits
  <2>3. Hits(i) = IF pairs[i] \in Required THEN Hits(i - 1) \cup {i} ELSE Hits(i - 1)
        BY <2>1, <2>2 DEF Hits
  <2>4. IsFiniteSet(Hits(i - 1)) /\ i \notin Hits(i - 1)
    <3>1. IsFiniteSet(1..(i - 1))
          BY <1>1, FS_Interval
    <3> QED BY <2>1, <3>1, FS_Subset DEF Hits
  <2>5. found = Cardinality(Hits(i - 1))
        BY DEF Inv, Counted
  <2>6. pairs[i] \in Required => Cardinality(Hits(i - 1) \cup {i}) = Cardinality(Hits(i - 1)) + 1
        BY <2>4, FS_AddElement
  <2>7. found' = Cardinality(Hits(i))
        BY <1>3, <2>3, <2>5, <2>6
  <2> QED BY <2>2, <2>7 DEF Counted
<1>6. LastPairWins'
  <2> SUFFICES ASSUME NEW k \in Key \ {unknown}
               PROVE  \/ Positions(k, i - 1)' = {} /\ lconfig'[k] = Unset
                      \/ /\ lconfig'[k] \in Positions(k, i - 1)'
                         /\ \A j \in Positions(k, i - 1)' : j <= lconfig'[k]
      BY DEF LastPairWins
  <2>1. (i + 1) - 1 = i /\ 1..i = 1..(i - 1) \cup {i} /\ \A j \in 1..(i - 1) : j <= i
        BY <1>1
  <2>2. Positions(k, i - 1)' = {j \in 1..i : pairs[j] = k}
        BY <1>1, <2>1 DEF Positions
  <2>3. CASE pairs[i] = k
    <3>1. lconfig'[k] = i
          BY <1>3, <2>3
    <3>2. i \in Positions(k, i - 1)' /\ \A j \in Positions(k, i - 1)' : j <= i
          BY <1>1, <2>1, <2>2, <2>3
    <3> QED BY <3>1, <3>2
  <2>4. CASE pairs[i] # k
    <3>1. lconfig'[k] = lconfig[k]
          BY <1>2, <1>3, <2>4
    <3>2. Positions(k, i - 1)' = Positions(k, i - 1)
          BY <2>1, <2>2, <2>4 DEF Positions
    <3> QED BY <3>1, <3>2 DEF Inv, LastPairWins
  <2> QED BY <2>3, <2>4
<1> QED BY <1>1, <1>4, <1>5, <1>6
        DEF Inv, PairsFitTable, Reading, Opening, Building, Complete, Started

LEMMA Step == Inv /\ [Next]_vars => Inv'
<1> SUFFICES ASSUME Inv, [Next]_vars PROVE Inv'
    OBVIOUS
<1> USE StartupAssumption
<1>1. /\ lines \in 0..MaxLines /\ cmax \in Nat /\ len \in {-1, Len(pairs)}
      /\ pairs \in Seq(Key) /\ Len(pairs) \in Nat /\ i \in 1..(Len(pairs) + 1)
      /\ PairsFitTable /\ Reading /\ Opening /\ Building /\ Complete
      BY DEF Inv, TypeOK
<1> USE DEF Reading, Opening, Building, Complete, Started, PairsFitTable
<1>2. CASE OpenConfig
  <2>1. UNCHANGED build /\ UNCHANGED file /\ pc = "openConfig" /\ pc' \in {"readLine", "returned"}
        BY <1>2 DEF OpenConfig, Return
  <2>2. Len(pairs) = 0 /\ cmax = Chunk
        BY <1>1, <2>1
  <2> QED BY <1>1, <2>1, <2>2, QuietStep DEF file, build
<1>3. CASE SkipLine \/ RefuseLine \/ AddPairFails
  <2>1. /\ UNCHANGED <<pairs, cmax, len>> /\ UNCHANGED build
        /\ pc = "readLine" /\ pc' \in {"readLine", "returned"}
        /\ lines < MaxLines /\ lines' = lines + 1
        BY <1>3 DEF SkipLine, RefuseLine, AddPairFails, Return
  <2> QED BY <1>1, <2>1, QuietStep DEF build
<1>4. CASE AddPair
      BY <1>4, AddPairStep
<1>5. CASE EndOfFile
  <2>1. /\ UNCHANGED <<lines, pairs>> /\ UNCHANGED build /\ pc = "readLine"
        /\ \/ pc' = "build" /\ cmax' = Len(pairs) /\ len' = Len(pairs)
           \/ pc' = "returned" /\ UNCHANGED <<cmax, len>>
        BY <1>5 DEF EndOfFile, Return
  <2> QED BY <1>1, <2>1, QuietStep
<1>6. CASE BuildPair
      BY <1>6, BuildPairStep
<1>7. CASE BuildEnd
  <2>1. /\ UNCHANGED build /\ UNCHANGED file /\ pc = "build" /\ i > len
        /\ \/ pc' = "openLog" /\ found = Cardinality(Required)
           \/ pc' = "returned"
        BY <1>7 DEF BuildEnd, Return
  <2>2. i = Len(pairs) + 1
        BY <1>1, <2>1
  <2> QED BY <1>1, <2>1, <2>2, QuietStep DEF build, file
<1>8. CASE OpenLog \/ makeDeamon \/ iniDNSlib \/ createThreads
  <2>1. /\ UNCHANGED build /\ UNCHANGED file
        /\ pc \in {"openLog", "daemon", "iniLib", "createThreads"}
        /\ pc' \in {"daemon", "iniLib", "createThreads", "running", "returned"}
        BY <1>8 DEF OpenLog, makeDeamon, iniDNSlib, createThreads, Return
  <2> QED BY <1>1, <2>1, QuietStep DEF build, file
<1>9. CASE Signal \/ UNCHANGED vars
  <2>1. UNCHANGED build /\ UNCHANGED file /\ pc' = pc
        BY <1>9 DEF Signal, vars
  <2>2. pc' \in {"openConfig", "readLine", "build", "openLog", "daemon", "iniLib",
                 "createThreads", "running", "returned"}
        BY <2>1 DEF Inv, TypeOK
  <2> QED BY <1>1, <2>1, <2>2, QuietStep DEF build, file
<1> QED BY <1>2, <1>3, <1>4, <1>5, <1>6, <1>7, <1>8, <1>9
        DEF Next, Main, readConfig, buildLocalConfig

LEMMA StartupInvariant == Spec => []Inv
BY Initial, Step, PTL DEF Spec

\* The variables keep their types; the length of the configuration is the number of its
\* pairs from the moment it is set.
THEOREM StartupTypeCorrect == Spec => []TypeOK
<1>1. Inv => TypeOK
      BY DEF Inv
<1> QED BY <1>1, StartupInvariant, PTL

\* No pair is written behind the table, for every file and every table growth.
THEOREM PairsAlwaysFit == Spec => []PairsFitTable
<1>1. Inv => PairsFitTable
      BY DEF Inv
<1> QED BY <1>1, StartupInvariant, PTL

\* As many distinct keys as are required are the required ones.
LEMMA AllFound == Inv => StartsComplete
<1> SUFFICES ASSUME Inv, Started, NoKeyTwice, NEW k \in Required
             PROVE  lconfig[k] # Unset
    BY DEF StartsComplete
<1> USE StartupAssumption
<1>1. /\ pairs \in Seq(Key) /\ Len(pairs) \in Nat /\ i = Len(pairs) + 1
      /\ found = Cardinality(Required) /\ found = Cardinality(Hits(i - 1))
      BY DEF Inv, TypeOK, Complete, Counted
<1>2. (Len(pairs) + 1) - 1 = Len(pairs)
      BY <1>1
<1> DEFINE H == Hits(Len(pairs))
           f == [j \in H |-> pairs[j]]
<1>3. Cardinality(H) = Cardinality(Required)
      BY <1>1, <1>2
<1>4. f \in Injection(H, Required)
  <2>1. f \in [H -> Required]
        BY DEF Hits
  <2>2. \A j, m \in H : f[j] = f[m] => j = m
        BY <1>1 DEF Hits, NoKeyTwice
  <2> HIDE DEF f
  <2> QED BY <2>1, <2>2 DEF Injection, IsInjective
<1>5. f \in Surjection(H, Required)
  <2> HIDE DEF f, H
  <2> QED BY <1>3, <1>4, FS_Injection
<1>6. PICK j \in H : f[j] = k
  <2> HIDE DEF f, H
  <2> QED BY <1>5 DEF Surjection
<1>7. j \in Positions(k, i - 1)
      BY <1>1, <1>2, <1>6 DEF Hits, Positions
<1>8. k \in Key \ {unknown} /\ lconfig[k] \in Positions(k, i - 1)
      BY <1>7 DEF Inv, LastPairWins, Key
<1> QED BY <1>1, <1>2, <1>8 DEF Positions, Unset

\* The last pair of a key is the one that the server uses; and for a file with no
\* required key twice the number that buildLocalConfig counts is enough, so that all
\* values it requires are there.
THEOREM ValuesAreAlwaysRead == Spec => []ValuesAreRead
<1>1. Inv => ValuesAreRead
      BY AllFound DEF Inv, ValuesAreRead
<1> QED BY <1>1, StartupInvariant, PTL

\* Whatever crashes the start is a call that failed, a signal, or a file that is not in
\* order: no value that main() or createThreads reads without a test is missing then.
THEOREM StartIsClean == Spec => []CleanStart
<1>1. Init => CleanStart
      BY DEF Init, CleanStart
<1>2. Inv /\ CleanStart /\ [Next]_vars => CleanStart'
  <2> SUFFICES ASSUME Inv, CleanStart, [Next]_vars, crashed',
                      ~(failures > 0 \/ signalled \/ ~WellFormed)'
               PROVE  FALSE
      BY DEF CleanStart
  <2>1. WellFormed' /\ ~malformed' /\ signalled' # TRUE /\ ~(failures' > 0)
        BY DEF WellFormed
  <2>2. ~Fails
        BY <2>1, FailuresStep DEF Inv, TypeOK, Fails
  <2>3. CASE UNCHANGED vars
        BY <2>1, <2>3 DEF vars, file, build, events, CleanStart, WellFormed, NoKeyTwice
  <2>4. CASE ~crashed /\ readConfig
        BY <2>1, <2>2, <2>4 DEF readConfig, OpenConfig, SkipLine, RefuseLine, AddPair, AddPairFails,
                                EndOfFile, events
  <2>5. CASE ~crashed /\ buildLocalConfig
    <3>1. pc = "build" => len # -1
      <4>1. Len(pairs) \in Nat /\ (pc = "build" => len = Len(pairs))
            BY DEF Inv, Building, TypeOK
      <4> QED BY <4>1
    <3>2. (BuildEnd /\ freeConfig) \/ crashed' = crashed
          BY <2>5 DEF buildLocalConfig, BuildPair, BuildEnd, events
    <3>3. ~(BuildEnd /\ freeConfig)
          BY <2>5, <3>1 DEF BuildEnd, freeConfig
    <3> QED BY <2>5, <3>2, <3>3
  <2>6. CASE ~crashed /\ (OpenLog \/ makeDeamon)
        BY <2>2, <2>6 DEF OpenLog, makeDeamon, events
  <2>7. CASE ~crashed /\ (iniDNSlib \/ createThreads)
    <3>1. /\ Started /\ pairs' = pairs /\ NoKeyTwice /\ lconfig' = lconfig
          /\ \/ iniDNSlib /\ lconfig[forwarder] = Unset
             \/ createThreads /\ lconfig[dnsip] = Unset
          BY <2>1, <2>2, <2>7 DEF iniDNSlib, createThreads, file, build, Started, WellFormed, NoKeyTwice
    <3>2. lconfig[dnsip] # Unset
          BY <3>1, AllFound, StartupAssumption DEF StartsComplete
    <3>3. PICK j \in DOMAIN pairs : pairs[j] = forwarder
          BY <2>1, <3>1 DEF WellFormed
    <3>4. j \in Positions(forwarder, i - 1)
      <4>1. pairs \in Seq(Key) /\ Len(pairs) \in Nat /\ i = Len(pairs) + 1
            BY <3>1 DEF Inv, TypeOK, Complete
      <4>2. j \in 1..Len(pairs) /\ i - 1 = Len(pairs)
            BY <3>3, <4>1
      <4> QED BY <3>3, <4>2 DEF Positions
    <3>5. lconfig[forwarder] # Unset
      <4>1. forwarder \in Key \ {unknown}
            BY StartupAssumption DEF Key
      <4>2. lconfig[forwarder] \in Positions(forwarder, i - 1)
            BY <3>4, <4>1 DEF Inv, LastPairWins
      <4> QED BY <4>2 DEF Positions, Unset
    <3> QED BY <3>1, <3>2, <3>5
  <2>8. CASE Signal
        BY <2>1, <2>8 DEF Signal
  <2> QED BY <2>3, <2>4, <2>5, <2>6, <2>7, <2>8 DEF Next, Main
<1> QED BY <1>1, <1>2, StartupInvariant, PTL DEF Spec

----------------------------------------------------------------------------
(* The start of a valid file.                                              *)

\* A file that has each required key once is found complete.
LEMMA ValidIsComplete ==
    ASSUME Inv, Valid, i = Len(pairs) + 1
    PROVE  found = Cardinality(Required)
<1> USE StartupAssumption
<1>1. /\ pairs \in Seq(Key) /\ Len(pairs) \in Nat
      /\ found = Cardinality(Hits(i - 1)) /\ NoKeyTwice
      BY DEF Inv, TypeOK, Counted, Valid, WellFormed
<1>2. (Len(pairs) + 1) - 1 = Len(pairs)
      BY <1>1
<1> DEFINE H == Hits(Len(pairs))
           f == [j \in H |-> pairs[j]]
<1>3. f \in Injection(H, Required)
  <2>1. f \in [H -> Required]
        BY DEF Hits
  <2>2. \A j, m \in H : f[j] = f[m] => j = m
        BY <1>1 DEF Hits, NoKeyTwice
  <2> HIDE DEF f
  <2> QED BY <2>1, <2>2 DEF Injection, IsInjective
<1>4. f \in Surjection(H, Required)
  <2>1. ASSUME NEW k \in Required PROVE \E j \in H : f[j] = k
    <3>1. PICK j \in Positions(k, Len(pairs)) : TRUE
          BY DEF Valid
    <3>2. j \in 1..Len(pairs) /\ pairs[j] = k
          BY <3>1 DEF Positions
    <3> QED BY <3>2 DEF Hits
  <2>2. f \in [H -> Required]
        BY <1>3 DEF Injection
  <2> HIDE DEF f
  <2> QED BY <2>1, <2>2 DEF Surjection
<1>5. Cardinality(H) = Cardinality(Required)
  <2> HIDE DEF f, H
  <2> QED BY <1>3, <1>4, FS_Injection
<1> QED BY <1>1, <1>2, <1>5

ValidNotRefused == pc = "returned" /\ Valid => failures > 0 \/ signalled

LEMMA NotRefusedStep == Inv /\ ValidNotRefused /\ [Next]_vars => ValidNotRefused'
<1> SUFFICES ASSUME Inv, ValidNotRefused, [Next]_vars, pc' = "returned", Valid',
                    ~(failures' > 0), signalled' # TRUE
             PROVE  FALSE
    BY FlagsStep DEF ValidNotRefused
<1>1. ~Fails
      BY FailuresStep DEF Inv, TypeOK, Fails
<1>2. CASE UNCHANGED vars
      BY <1>2 DEF vars, file, build, events, ValidNotRefused, Valid, WellFormed, NoKeyTwice, Positions
<1>3. CASE OpenConfig \/ AddPairFails
      BY <1>1, <1>3 DEF OpenConfig, AddPairFails
<1>4. CASE SkipLine \/ AddPair \/ BuildPair
      BY <1>4 DEF SkipLine, AddPair, BuildPair
<1>5. CASE RefuseLine
      BY <1>5 DEF RefuseLine, Valid, WellFormed
<1>6. CASE EndOfFile
  <2>1. pairs' = <<>>
        BY <1>1, <1>6 DEF EndOfFile
  <2> QED BY <2>1 DEF Valid, WellFormed
<1>7. CASE BuildEnd
  <2>1. /\ UNCHANGED <<pairs, malformed, i>> /\ pc = "build" /\ i > len
        /\ found # Cardinality(Required)
        BY <1>7 DEF BuildEnd, file, build
  <2>2. Valid
        BY <2>1 DEF Valid, WellFormed, NoKeyTwice, Positions
  <2>3. i = Len(pairs) + 1
    <3>1. len = Len(pairs) /\ Len(pairs) \in Nat /\ i \in 1..(Len(pairs) + 1)
          BY <2>1 DEF Inv, TypeOK, Building
    <3> QED BY <2>1, <3>1
  <2> QED BY <2>1, <2>2, <2>3, ValidIsComplete
<1>8. CASE OpenLog \/ makeDeamon \/ iniDNSlib \/ createThreads
      BY <1>1, <1>8 DEF OpenLog, makeDeamon, iniDNSlib, createThreads
<1>9. CASE Signal
      BY <1>9 DEF Signal
<1> QED BY <1>2, <1>3, <1>4, <1>5, <1>6, <1>7, <1>8, <1>9
        DEF Next, Main, readConfig, buildLocalConfig

\* What main() has still to do at most: its lines, the pairs it looks at, and the rest.
StartWork ==
    [openConfig |-> 2 * MaxLines + 8, readLine |-> 2 * (MaxLines - lines) + Len(pairs) + 7,
     build |-> Len(pairs) - i + 6, openLog |-> 4, daemon |-> 3, iniLib |-> 2,
     createThreads |-> 1, running |-> 0, returned |-> 0][pc]

WorkLeft == StartWork \in Nat

LEMMA StartWorkIsNatural == Inv => WorkLeft
<1> SUFFICES ASSUME Inv PROVE StartWork \in Nat
    BY DEF WorkLeft
<1>1. /\ lines \in 0..MaxLines /\ MaxLines \in Nat /\ Len(pairs) \in Nat
      /\ i \in 1..(Len(pairs) + 1)
      BY StartupAssumption DEF Inv, TypeOK
<1>2. pc \in {"openConfig", "readLine", "build", "openLog", "daemon", "iniLib",
              "createThreads", "running", "returned"}
      BY DEF Inv, TypeOK
<1> QED BY <1>1, <1>2 DEF StartWork

LEMMA StartWorkStep ==
    ASSUME Inv, Next, ~signalled'
    PROVE  StartWork' < StartWork
<1>1. /\ lines \in 0..MaxLines /\ MaxLines \in Nat /\ Len(pairs) \in Nat
      /\ i \in 1..(Len(pairs) + 1) /\ pairs \in Seq(Key)
      BY StartupAssumption DEF Inv, TypeOK
<1>2. CASE OpenConfig
  <2>1. pc = "openConfig" /\ Len(pairs) = 0 /\ pc' \in {"readLine", "returned"}
        /\ UNCHANGED <<lines, pairs>>
        BY <1>2 DEF OpenConfig, Inv, Opening, Return, file
  <2> QED BY <1>1, <2>1 DEF StartWork
<1>3. CASE SkipLine \/ RefuseLine \/ AddPairFails
  <2>1. pc = "readLine" /\ pc' \in {"readLine", "returned"} /\ lines' = lines + 1
        /\ lines < MaxLines /\ pairs' = pairs
        BY <1>3 DEF SkipLine, RefuseLine, AddPairFails, Return
  <2> QED BY <1>1, <2>1 DEF StartWork
<1>4. CASE AddPair
  <2>1. pc = "readLine" /\ pc' = "readLine" /\ lines' = lines + 1 /\ lines < MaxLines
        BY <1>4 DEF AddPair
  <2>2. Len(pairs') = Len(pairs) + 1
        BY <1>1, <1>4 DEF AddPair
  <2> QED BY <1>1, <2>1, <2>2 DEF StartWork
<1>5. CASE EndOfFile
  <2>1. pc = "readLine" /\ pc' \in {"build", "returned"} /\ pairs' = pairs /\ i' = i /\ i = 1
        BY <1>5 DEF EndOfFile, Return, Inv, Reading, build
  <2> QED BY <1>1, <2>1 DEF StartWork
<1>6. CASE BuildPair
  <2>1. pc = "build" /\ pc' = "build" /\ pairs' = pairs /\ i' = i + 1 /\ i <= Len(pairs)
        BY <1>6 DEF BuildPair, Inv, Building, file
  <2> QED BY <1>1, <2>1 DEF StartWork
<1>7. CASE BuildEnd
  <2>1. pc = "build" /\ pc' \in {"openLog", "returned"}
        BY <1>7 DEF BuildEnd, Return
  <2> QED BY <1>1, <2>1 DEF StartWork
<1>8. CASE OpenLog \/ makeDeamon \/ iniDNSlib \/ createThreads
  <2>1. <<pc, pc'>> \in {<<"openLog", "daemon">>, <<"daemon", "iniLib">>, <<"daemon", "returned">>,
                         <<"iniLib", "createThreads">>, <<"iniLib", "returned">>,
                         <<"createThreads", "running">>, <<"createThreads", "returned">>}
        BY <1>8 DEF OpenLog, makeDeamon, iniDNSlib, createThreads, Return
  <2> QED BY <2>1 DEF StartWork
<1>9. CASE Signal
      BY <1>9 DEF Signal
<1> QED BY <1>2, <1>3, <1>4, <1>5, <1>6, <1>7, <1>8, <1>9
        DEF Next, Main, readConfig, buildLocalConfig

\* A file that has each required key once and a forwarder is never refused, whatever
\* other keys and lines there are, unless a call fails or a signal comes: the count of
\* buildLocalConfig is right in this direction as well.  And main() comes closer to an
\* end with every step: what ValidFileStarts needs besides is that it is scheduled.
THEOREM ValidFilesStart ==
    Spec => /\ [](ValidNotRefused /\ WorkLeft)
            /\ [][StartWork' < StartWork \/ signalled']_vars
<1>1. Init => ValidNotRefused
      BY DEF Init, ValidNotRefused
<1>2. Spec => []ValidNotRefused
      BY <1>1, NotRefusedStep, StartupInvariant, PTL DEF Spec
<1>3. Spec => []WorkLeft
      BY StartWorkIsNatural, StartupInvariant, PTL
<1>4. Inv /\ [Next]_vars => [StartWork' < StartWork \/ signalled']_vars
      BY StartWorkStep
<1>5. Spec => [][StartWork' < StartWork \/ signalled']_vars
      BY <1>4, StartupInvariant, PTL DEF Spec
<1> QED BY <1>2, <1>3, <1>5, PTL
====
