----------------------------- MODULE PluginProofs -----------------------------
(***************************************************************************)
(* What is true of the plugin, and of what a compiler makes of its files,  *)
(* for every request, whatever names its files have and however many they  *)
(* are.                                                                    *)
(***************************************************************************)
EXTENDS TranslationUnits, WellFoundedInduction, FiniteSetTheorems, TLAPS

(* A request is a sequence of files.                                       *)
LEMMA RequestsAreSequences ==
  \A n \in Nat : \A sent \in Requests(n) : sent \in Seq(File) /\ Sorted(sent)
BY DEF Requests

(* A wanted file adds one to the count.                                    *)
LEMMA WantedGrows ==
  ASSUME NEW n \in Nat \ {0}
  PROVE  /\ WantedUpTo(0) = 0
         /\ WantedUpTo(n - 1) \in Nat
         /\ WantedUpTo(n) = IF request[n].wanted THEN WantedUpTo(n - 1) + 1
                            ELSE WantedUpTo(n - 1)
<1> DEFINE Upto(m) == {i \in 1 .. m : request[i].wanted}
<1>1. Upto(0) = {}
  OBVIOUS
<1>2. WantedUpTo(0) = 0
  BY <1>1, FS_EmptySet DEF WantedUpTo
<1>3. IsFiniteSet(Upto(n - 1))
  <2>1. Upto(n - 1) \in SUBSET (1 .. n - 1)
    OBVIOUS
  <2>2. IsFiniteSet(1 .. n - 1)
    BY FS_Interval
  <2> QED
    BY <2>1, <2>2, FS_Subset
<1>4. WantedUpTo(n - 1) \in Nat
  BY <1>3, FS_CardinalityType DEF WantedUpTo
<1>5. CASE request[n].wanted
  <2>1. Upto(n) = Upto(n - 1) \cup {n}
    BY <1>5
  <2>2. n \notin Upto(n - 1)
    OBVIOUS
  <2> HIDE DEF Upto
  <2>3. Cardinality(Upto(n)) = Cardinality(Upto(n - 1)) + 1
    BY <1>3, <2>1, <2>2, FS_AddElement
  <2> QED
    BY <1>2, <1>4, <1>5, <2>3 DEF WantedUpTo, Upto
<1>6. CASE ~request[n].wanted
  <2>1. Upto(n) = Upto(n - 1)
    BY <1>6
  <2> QED
    BY <1>2, <1>4, <1>6, <2>1 DEF WantedUpTo
<1> QED
  BY <1>5, <1>6

(* The count never falls.                                                  *)
LEMMA WantedIsMonotone ==
  ASSUME NEW n \in Nat, NEW i \in 0 .. n
  PROVE  WantedUpTo(i) \in Nat /\ WantedUpTo(n) \in Nat /\ WantedUpTo(i) <= WantedUpTo(n)
<1> DEFINE Upto(m) == {k \in 1 .. m : request[k].wanted}
<1>1. Upto(i) \in SUBSET Upto(n) /\ Upto(n) \in SUBSET (1 .. n)
  OBVIOUS
<1>2. IsFiniteSet(1 .. n)
  BY FS_Interval
<1> HIDE DEF Upto
<1>3. IsFiniteSet(Upto(n)) /\ IsFiniteSet(Upto(i))
  BY <1>1, <1>2, FS_Subset
<1>4. Cardinality(Upto(i)) <= Cardinality(Upto(n))
  BY <1>1, <1>3, FS_Subset
<1>5. Cardinality(Upto(i)) \in Nat /\ Cardinality(Upto(n)) \in Nat
  BY <1>3, FS_CardinalityType
<1> QED
  BY <1>4, <1>5 DEF WantedUpTo, Upto

(* The entries of a wanted file stand where the count says.                *)
LEMMA PlacesAreInside ==
  ASSUME NEW n \in Nat, NEW i \in 1 .. n, request[i].wanted
  PROVE  /\ 2 * WantedUpTo(i) - 1 \in 1 .. 2 * WantedUpTo(n)
         /\ 2 * WantedUpTo(i) \in 1 .. 2 * WantedUpTo(n)
<1>1. WantedUpTo(i) \in Nat /\ WantedUpTo(n) \in Nat /\ WantedUpTo(i) <= WantedUpTo(n)
  BY WantedIsMonotone
<1>2. WantedUpTo(i) = WantedUpTo(i - 1) + 1 /\ WantedUpTo(i - 1) \in Nat
  BY WantedGrows
<1> QED
  BY <1>1, <1>2

(* What stands behind the entries makes no difference to them.             *)
LEMMA BeginsPrefix ==
  ASSUME NEW n \in Nat, NEW got, NEW more, Begins(got, n),
         \A k \in 1 .. 2 * WantedUpTo(n) : more[k] = got[k]
  PROVE  Begins(more, n)
<1> SUFFICES ASSUME NEW i \in 1 .. n, request[i].wanted
             PROVE  /\ more[2 * WantedUpTo(i) - 1] = Header(request[i])
                    /\ more[2 * WantedUpTo(i)] = Source(request[i])
  BY DEF Begins
<1>1. /\ 2 * WantedUpTo(i) - 1 \in 1 .. 2 * WantedUpTo(n)
      /\ 2 * WantedUpTo(i) \in 1 .. 2 * WantedUpTo(n)
  BY PlacesAreInside
<1> QED
  BY <1>1 DEF Begins

(* A file that is not wanted adds nothing, ...                             *)
LEMMA UnwantedAddsNothing ==
  ASSUME NEW n \in Nat \ {0}, NEW got, Generated(got, n - 1), ~request[n].wanted
  PROVE  Generated(got, n)
<1>1. WantedUpTo(n) = WantedUpTo(n - 1)
  BY WantedGrows
<1>2. \A i \in 1 .. n : i = n \/ i \in 1 .. n - 1
  OBVIOUS
<1> QED
  BY <1>1, <1>2 DEF Generated, Begins

(* ... one that is adds its two entries.                                   *)
LEMMA WantedAddsEntries ==
  ASSUME NEW n \in Nat \ {0}, NEW S, NEW got \in Seq(S), NEW entry \in S,
         request[n].wanted,
         Len(got) = 2 * WantedUpTo(n - 1) + 1, Begins(got, n - 1),
         got[Len(got)] = Header(request[n]), entry = Source(request[n])
  PROVE  Generated(Append(got, entry), n)
<1>1. WantedUpTo(n) = WantedUpTo(n - 1) + 1 /\ WantedUpTo(n - 1) \in Nat
  BY WantedGrows
<1> DEFINE more == Append(got, entry)
<1>2. /\ Len(more) = 2 * WantedUpTo(n)
      /\ \A k \in 1 .. Len(got) : more[k] = got[k]
      /\ more[Len(got) + 1] = entry
  BY <1>1
<1> HIDE DEF more
<1>3. Begins(more, n - 1)
  <2>1. n - 1 \in Nat /\ \A k \in 1 .. 2 * WantedUpTo(n - 1) : k \in 1 .. Len(got)
    BY <1>1
  <2>2. \A k \in 1 .. 2 * WantedUpTo(n - 1) : more[k] = got[k]
    BY <1>2, <2>1
  <2> QED
    BY <2>1, <2>2, BeginsPrefix
<1>4. more[2 * WantedUpTo(n) - 1] = Header(request[n]) /\ more[2 * WantedUpTo(n)] = Source(request[n])
  <2>1. /\ 2 * WantedUpTo(n) - 1 = Len(got)
        /\ 2 * WantedUpTo(n) = Len(got) + 1
        /\ Len(got) \in 1 .. Len(got)
    BY <1>1
  <2> QED
    BY <1>2, <2>1
<1>5. \A i \in 1 .. n : i = n \/ i \in 1 .. n - 1
  OBVIOUS
<1>6. Begins(more, n)
  BY <1>3, <1>4, <1>5 DEF Begins
<1>7. Generated(more, n)
  BY <1>2, <1>6 DEF Generated
<1> QED
  BY <1>7 DEF more


(* The request is what it was.                                             *)
LEMMA RequestStays == [Next]_vars => UNCHANGED request
BY DEF Next, vars, Goto, Exit, Fatal, ReadBad, ReadRequest, SkipFile, AddHeader, GenerateHeader,
   GenerateSource, FileFails, LoopEnds, WriteError, WriteFatal, WriteResponse, WriteRaises,
   WriteRaisesAgain, FlushFails, Exited

(* The request does not change, so that what is said of the new list of    *)
(* files is said of the same request.                                      *)
LEMMA SaidOfNewFiles ==
  ASSUME UNCHANGED request
  PROVE  /\ Generated(files', at' - 1) => Generated(files, at - 1)'
         /\ Generated(files', Len(request)) => Generated(files, Len(request))'
         /\ at' = at /\ Interrupted(files', NoContent(request[at]))
              => Interrupted(files, NoContent(request[at]))'
         /\ at' = at /\ Interrupted(files', Header(request[at]))
              => Interrupted(files, Header(request[at]))'
BY DEF Generated, Interrupted, Begins, WantedUpTo, Header, Source, NoContent

(* Every entry that is added is an entry of the request.                   *)
LEMMA EntriesOfFile ==
  ASSUME NEW i \in DOMAIN request
  PROVE  {NoContent(request[i]), Header(request[i]), Source(request[i])} \subseteq Entries
BY DEF Entries

(* Before a file is reached there is nothing.                              *)
LEMMA NothingGenerated ==
  Generated(<<>>, 0)
<1>1. WantedUpTo(0) = 0
  BY WantedGrows
<1> QED
  BY <1>1 DEF Generated, Begins

(* The plugin begins with the request and nothing else.                    *)
LEMMA InitEstablishes == Init => IndInv
<1> SUFFICES ASSUME Init PROVE IndInv
  OBVIOUS
<1>1. TypeOK
  <2>1. request # Unreadable => request \in Seq(File) /\ Sorted(request)
    <3>1. \A n \in 0 .. MaxFiles : n \in Nat
      BY MaxFilesAssumption
    <3> QED
      BY <3>1, RequestsAreSequences DEF Init
  <2>2. /\ at \in Nat \ {0}
        /\ step \in {"read", "loop", "header", "source", "failed", "write", "fatal", "exited"}
        /\ files = <<>>
    BY DEF Init
  <2>3. error \in BOOLEAN /\ status \in {NULL, 0, 1, 120}
    BY DEF Init
  <2> QED
    BY <2>1, <2>2, <2>3 DEF TypeOK
<1>2. FilesInv /\ OutcomeInv
  BY DEF Init, FilesInv, OutcomeInv
<1>4. PassedInv
  <2>1. request # Unreadable => DOMAIN request \in SUBSET (Nat \ {0})
    BY <1>1 DEF TypeOK
  <2> QED
    BY <2>1 DEF Init, PassedInv
<1>3. ResponseIsWhole
  <2>1. DOMAIN output = {}
    BY DEF Init
  <2> QED
    BY <2>1 DEF ResponseIsWhole
<1> QED
  BY <1>1, <1>2, <1>3, <1>4 DEF IndInv

(* Each step of the loop keeps the list of files what it should be.        *)
LEMMA LoopKeepsFiles ==
  ASSUME IndInv, SkipFile \/ AddHeader \/ GenerateHeader \/ GenerateSource \/ LoopEnds
  PROVE  /\ files' \in Seq(Entries)
         /\ FilesInv'
<1>0. UNCHANGED request /\ step \in {"loop", "header", "source"}
  BY DEF SkipFile, AddHeader, GenerateHeader, GenerateSource, LoopEnds, Looping
<1>1. UNCHANGED request /\ request \in Seq(File) /\ Len(request) \in Nat /\ request # Unreadable
  BY <1>0 DEF IndInv, TypeOK, FilesInv, OutcomeInv
<1>2. files \in Seq(Entries)
  <2>1. <<>> \in Seq(Entries)
    OBVIOUS
  <2>2. files # <<>> => files \in Seq(Entries)
    BY DEF IndInv, TypeOK
  <2> QED
    BY <2>1, <2>2
<1>3. at \in Nat \ {0}
  BY DEF IndInv, TypeOK
<1>4. CASE SkipFile
  <2>1. /\ step = "loop" /\ at \in 1 .. Len(request) /\ ~request[at].wanted
        /\ step' = "loop" /\ at' = at + 1 /\ files' = files
    BY <1>1, <1>3, <1>4 DEF SkipFile, Looping
  <2>2. Generated(files, at - 1)
    BY <2>1 DEF IndInv, FilesInv
  <2>3. Generated(files', at' - 1)
    <3>1. Generated(files, at)
      BY <1>3, <2>1, <2>2, UnwantedAddsNothing
    <3> QED
      BY <1>3, <2>1, <3>1
  <2> QED
    BY <1>1, <1>2, <1>3, <2>1, <2>3, SaidOfNewFiles DEF FilesInv
<1>5. CASE AddHeader
  <2> DEFINE entry == NoContent(request[at])
  <2>1. /\ step = "loop" /\ at \in DOMAIN request /\ request[at].wanted
        /\ step' = "header" /\ at' = at /\ files' = Append(files, entry)
    BY <1>1, <1>3, <1>5 DEF AddHeader, Looping, Goto, NoContent
  <2>2. Generated(files, at - 1)
    BY <2>1 DEF IndInv, FilesInv
  <2>3. entry \in Entries
    BY <2>1, EntriesOfFile
  <2>4. at - 1 \in Nat /\ WantedUpTo(at - 1) \in Nat
    BY <1>3, WantedGrows
  <2> HIDE DEF entry
  <2>5. /\ files' \in Seq(Entries)
        /\ Len(files') = 2 * WantedUpTo(at - 1) + 1
        /\ files'[Len(files')] = entry
        /\ \A k \in 1 .. 2 * WantedUpTo(at - 1) : files'[k] = files[k]
    BY <1>2, <2>1, <2>2, <2>3, <2>4 DEF Generated
  <2>6. Begins(files', at - 1)
    BY <2>2, <2>4, <2>5, BeginsPrefix DEF Generated
  <2>7. Interrupted(files', entry)
    BY <2>1, <2>5, <2>6 DEF Interrupted
  <2> QED
    BY <1>1, <2>1, <2>5, <2>7, SaidOfNewFiles DEF FilesInv, entry
<1>6. CASE GenerateHeader
  <2>1. /\ step = "header" /\ step' = "source" /\ at' = at
        /\ Interrupted(files, NoContent(request[at]))
    BY <1>6 DEF GenerateHeader, Goto, IndInv, FilesInv
  <2>2. at \in DOMAIN request /\ at - 1 \in Nat /\ WantedUpTo(at - 1) \in Nat
    BY <1>3, <2>1, WantedGrows DEF Interrupted
  <2>3. Len(files) \in 1 .. Len(files) /\ files[Len(files)] = NoContent(request[at])
    BY <1>2, <2>1, <2>2 DEF Interrupted
  <2>4. files' = [files EXCEPT ![Len(files)] = Header(request[at])]
    <3> DEFINE content == generate_header(request, request[at])
    <3>1. files' = [files EXCEPT ![Len(files)] = [files[Len(files)] EXCEPT !.content = content]]
      BY <1>6 DEF GenerateHeader
    <3>2. [NoContent(request[at]) EXCEPT !.content = content] = Header(request[at])
      BY DEF NoContent, Header
    <3> QED
      BY <2>3, <3>1, <3>2
  <2>5. Header(request[at]) \in Entries
    BY <2>2, EntriesOfFile
  <2>6. /\ files' \in Seq(Entries)
        /\ Len(files') = 2 * WantedUpTo(at - 1) + 1
        /\ files'[Len(files')] = Header(request[at])
        /\ \A k \in 1 .. 2 * WantedUpTo(at - 1) : files'[k] = files[k]
    BY <1>2, <2>1, <2>2, <2>3, <2>4, <2>5 DEF Interrupted
  <2>7. Begins(files', at - 1)
    BY <2>1, <2>2, <2>6, BeginsPrefix DEF Interrupted
  <2>8. Interrupted(files', Header(request[at]))
    BY <2>1, <2>6, <2>7 DEF Interrupted
  <2> QED
    BY <1>1, <2>1, <2>6, <2>8, SaidOfNewFiles DEF FilesInv
<1>7. CASE GenerateSource
  <2> DEFINE entry == Source(request[at])
  <2>1. /\ step = "source" /\ step' = "loop" /\ at' = at + 1
        /\ files' = Append(files, entry)
        /\ Interrupted(files, Header(request[at]))
    BY <1>7 DEF GenerateSource, Goto, Source, IndInv, FilesInv
  <2>2. at \in DOMAIN request
    BY <2>1 DEF Interrupted
  <2>3. entry \in Entries
    BY <2>2, EntriesOfFile
  <2>4. Generated(Append(files, entry), at)
    BY <1>2, <1>3, <2>1, <2>3, WantedAddsEntries DEF Interrupted
  <2>5. Generated(files', at' - 1) /\ at' <= Len(request) + 1
    BY <1>1, <1>3, <2>1, <2>2, <2>4
  <2>6. files' \in Seq(Entries)
    BY <1>2, <2>1, <2>3
  <2> QED
    BY <1>1, <2>1, <2>5, <2>6, SaidOfNewFiles DEF FilesInv
<1>8. CASE LoopEnds
  <2>1. /\ step = "loop" /\ at = Len(request) + 1 /\ step' = "write" /\ files' = files
        /\ Generated(files, at - 1)
    BY <1>1, <1>3, <1>8 DEF LoopEnds, Goto, IndInv, FilesInv
  <2>2. Generated(files', Len(request))
    BY <1>1, <2>1
  <2> QED
    BY <1>1, <1>2, <2>1, <2>2, SaidOfNewFiles DEF FilesInv
<1> QED
  BY <1>4, <1>5, <1>6, <1>7, <1>8


(* Every other step keeps the list, or throws it away with the response.   *)
LEMMA FilesPreserved ==
  IndInv /\ [Next]_vars => (TypeOK /\ FilesInv)'
<1> SUFFICES ASSUME IndInv, [Next]_vars PROVE (TypeOK /\ FilesInv)'
  OBVIOUS
<1>1. UNCHANGED request
  BY RequestStays
<1>2. CASE SkipFile \/ AddHeader \/ GenerateHeader \/ GenerateSource \/ LoopEnds
  <2>1. files' \in Seq(Entries) /\ FilesInv'
    BY <1>2, LoopKeepsFiles
  <2>2. Entries' = Entries
    BY <1>1 DEF Entries, NoContent, Header, Source
  <2>3. request # Unreadable
    BY <1>2 DEF IndInv, FilesInv, OutcomeInv, SkipFile, AddHeader, GenerateHeader,
       GenerateSource, LoopEnds, Looping
  <2>4. (request # Unreadable => request \in Seq(File) /\ Sorted(request))'
    BY <1>1 DEF IndInv, TypeOK
  <2>5. at' \in Nat \ {0}
    BY <1>2 DEF IndInv, TypeOK, SkipFile, AddHeader, GenerateHeader, GenerateSource, LoopEnds
  <2>6. /\ step' \in {"loop", "header", "source", "write"}
        /\ UNCHANGED <<error, status>>
    BY <1>2 DEF IndInv, TypeOK, SkipFile, AddHeader, GenerateHeader, GenerateSource, LoopEnds, Looping, Goto
  <2> QED
    BY <1>1, <2>1, <2>2, <2>3, <2>4, <2>5, <2>6 DEF IndInv, TypeOK
<1>3. CASE ReadRequest
  <2>1. /\ request # Unreadable /\ request \in Seq(File)
        /\ files = <<>> /\ at = 1
        /\ step' = "loop"
        /\ UNCHANGED <<at, files, error, status>>
    BY <1>3 DEF ReadRequest, Goto, IndInv, TypeOK, FilesInv
  <2>2. Generated(files', at' - 1) /\ at <= Len(request) + 1
    BY <2>1, NothingGenerated
  <2>3. FilesInv'
    BY <1>1, <2>1, <2>2, SaidOfNewFiles DEF FilesInv
  <2>4. TypeOK'
    BY <1>1, <2>1 DEF IndInv, TypeOK
  <2> QED
    BY <2>3, <2>4
<1>4. CASE FileFails
  <2>1. /\ step = "header" /\ step' = "failed" /\ error' = TRUE
        /\ UNCHANGED <<at, files, status>>
    BY <1>4 DEF FileFails, Goto
  <2>2. FilesInv'
    BY <1>1, <2>1, SaidOfNewFiles DEF IndInv, FilesInv
  <2>3. TypeOK'
    BY <1>1, <2>1 DEF IndInv, TypeOK, Entries, NoContent, Header, Source
  <2> QED
    BY <2>2, <2>3
<1>5. CASE ReadBad \/ WriteRaises
  <2>1. /\ step' = "fatal" /\ error' = TRUE /\ files' = <<>>
        /\ UNCHANGED <<at, status>>
    BY <1>5 DEF ReadBad, WriteRaises, Fatal, Goto
  <2> QED
    BY <1>1, <2>1 DEF IndInv, TypeOK, FilesInv
<1>6. CASE WriteError \/ WriteFatal \/ WriteResponse \/ WriteRaisesAgain \/ FlushFails
  <2>1. /\ step' = "exited" /\ status' \in {0, 1, 120}
        /\ step # "read" /\ UNCHANGED <<at, files, error>>
    BY <1>6 DEF WriteError, WriteFatal, WriteResponse, WriteRaisesAgain, FlushFails, Exit, Goto
  <2>2. FilesInv'
    BY <1>1, <2>1 DEF IndInv, FilesInv
  <2>3. TypeOK'
    BY <1>1, <2>1 DEF IndInv, TypeOK, Entries, NoContent, Header, Source
  <2> QED
    BY <2>2, <2>3
<1>7. CASE UNCHANGED vars
  <2>1. UNCHANGED <<at, step, files, error, status>>
    BY <1>7 DEF vars
  <2>2. FilesInv'
    BY <1>1, <2>1, SaidOfNewFiles DEF IndInv, FilesInv
  <2> QED
    BY <1>1, <2>1, <2>2 DEF IndInv, TypeOK, Entries, NoContent, Header, Source
<1> QED
  BY <1>2, <1>3, <1>4, <1>5, <1>6, <1>7 DEF Next, Exited

(* The header of a file with messages fails, and then the loop is left.    *)
LEMMA PassedPreserved ==
  IndInv /\ [Next]_vars => PassedInv'
<1> SUFFICES ASSUME IndInv, [Next]_vars PROVE PassedInv'
  OBVIOUS
<1>1. UNCHANGED request
  BY RequestStays
<1>2. /\ request # Unreadable => DOMAIN request = 1 .. Len(request) /\ Len(request) \in Nat
      /\ at \in Nat \ {0} /\ PassedInv
  BY DEF IndInv, TypeOK
<1>3. CASE SkipFile
  <2>1. at' = at + 1 /\ step' = step /\ step = "loop" /\ ~ request[at].wanted
    BY <1>3 DEF SkipFile, Looping
  <2> QED
    BY <1>1, <1>2, <2>1 DEF PassedInv
<1>4. CASE GenerateSource
  <2>1. at' = at + 1 /\ step' = "loop" /\ step = "source"
    BY <1>4 DEF GenerateSource, Goto
  <2> QED
    BY <1>1, <1>2, <2>1 DEF PassedInv
<1>5. CASE GenerateHeader
  <2>1. at' = at /\ step' = "source" /\ ~ HeaderRaises(request[at])
    BY <1>5 DEF GenerateHeader, Goto
  <2> QED
    BY <1>1, <1>2, <2>1 DEF PassedInv
<1>6. CASE LoopEnds
  <2>1. at' = at /\ step' = "write" /\ at > Len(request) /\ request # Unreadable
    BY <1>6 DEF LoopEnds, Goto, IndInv, FilesInv, OutcomeInv
  <2> QED
    BY <1>1, <1>2, <2>1 DEF PassedInv
<1>7. CASE \/ ReadBad \/ ReadRequest \/ AddHeader \/ FileFails \/ WriteRaises
  <2>1. at' = at /\ step' \notin {"source", "write", "exited"}
    BY <1>7 DEF ReadBad, ReadRequest, AddHeader, FileFails, WriteRaises, Fatal, Goto
  <2> QED
    BY <1>1, <1>2, <2>1 DEF PassedInv
<1>8. CASE WriteError \/ WriteFatal \/ WriteResponse \/ WriteRaisesAgain \/ FlushFails
  <2>1. at' = at /\ step' = "exited" /\ error' = error /\ step \in {"failed", "write", "fatal"}
    BY <1>8 DEF WriteError, WriteFatal, WriteResponse, WriteRaisesAgain, FlushFails, Exit, Goto
  <2>2. ~ error => step = "write"
    BY <2>1 DEF IndInv, OutcomeInv
  <2> QED
    BY <1>1, <1>2, <2>1, <2>2 DEF PassedInv
<1>9. CASE UNCHANGED vars
  BY <1>2, <1>9 DEF PassedInv, vars
<1> QED
  BY <1>3, <1>4, <1>5, <1>6, <1>7, <1>8, <1>9 DEF Next, Exited

(* What protoc gets is what the response was when it was written, and the  *)
(* exit status tells whether that has an error.                            *)
LEMMA OutcomePreserved ==
  IndInv /\ [Next]_vars => (OutcomeInv /\ ResponseIsWhole)'
<1> SUFFICES ASSUME IndInv, [Next]_vars PROVE (OutcomeInv /\ ResponseIsWhole)'
  OBVIOUS
<1>1. UNCHANGED request
  BY RequestStays
<1>2. ASSUME output' = <<>>
      PROVE  ResponseIsWhole'
  <2>1. DOMAIN output' = {}
    BY <1>2
  <2> QED
    BY <2>1 DEF ResponseIsWhole
<1>3. CASE UNCHANGED vars
  <2>1. UNCHANGED <<at, step, files, error, output, status>>
    BY <1>3 DEF vars
  <2>2. OutcomeInv'
    BY <2>1 DEF IndInv, TypeOK, OutcomeInv
  <2>3. ResponseIsWhole'
    <3>1. \A got, n : Generated(got, n) => (Generated(got, n))'
      BY <1>1 DEF Generated, Begins, WantedUpTo, Header, Source
    <3>2. \A got : Interrupted(got, NoContent(request[at]))
                     => (Interrupted(got, NoContent(request[at])))'
      BY <1>1, <2>1 DEF Interrupted, Begins, WantedUpTo, Header, Source, NoContent
    <3> SUFFICES ASSUME NEW i \in DOMAIN output
                 PROVE  IF ~output[i].error THEN (Generated(output[i].files, Len(request)))'
                        ELSE \/ output[i].files = <<>>
                             \/ (Interrupted(output[i].files, NoContent(request[at])))'
      BY <1>1, <2>1 DEF ResponseIsWhole
    <3>3. IF ~output[i].error THEN Generated(output[i].files, Len(request))
          ELSE \/ output[i].files = <<>>
               \/ Interrupted(output[i].files, NoContent(request[at]))
      BY DEF IndInv, ResponseIsWhole
    <3> QED
      BY <1>1, <2>1, <3>1, <3>2, <3>3
  <2> QED
    BY <2>2, <2>3
<1>4. CASE WriteError \/ WriteFatal \/ WriteResponse
  <2>1. /\ step' = "exited"
        /\ output' = <<[files |-> files, error |-> error]>>
        /\ UNCHANGED <<at, files, error>>
        /\ status' = IF error THEN 1 ELSE 0
    <3>1. output = <<>> /\ output' = Append(output, [files |-> files, error |-> error])
      BY <1>4 DEF WriteError, WriteFatal, WriteResponse, Respond, IndInv, OutcomeInv
    <3>2. step' = "exited" /\ UNCHANGED <<at, files, error>>
      BY <1>4 DEF WriteError, WriteFatal, WriteResponse, Exit, Goto
    <3>3. /\ WriteError \/ WriteFatal => error /\ status' = 1
          /\ WriteResponse => ~error /\ status' = 0
      BY DEF WriteError, WriteFatal, WriteResponse, Exit, IndInv, OutcomeInv
    <3> QED
      BY <1>4, <3>1, <3>2, <3>3
  <2>2. IF ~error THEN Generated(files, Len(request))
        ELSE files = <<>> \/ Interrupted(files, NoContent(request[at]))
    <3>1. CASE WriteResponse
      BY <3>1 DEF WriteResponse, IndInv, FilesInv, OutcomeInv
    <3>2. CASE WriteError
      BY <3>2 DEF WriteError, IndInv, FilesInv, OutcomeInv
    <3>3. CASE WriteFatal
      BY <3>3 DEF WriteFatal, IndInv, FilesInv, OutcomeInv
    <3> QED
      BY <1>4, <3>1, <3>2, <3>3
  <2>3. IF ~error' THEN Generated(files, Len(request))'
        ELSE files' = <<>> \/ Interrupted(files, NoContent(request[at]))'
    BY <1>1, <2>1, <2>2, SaidOfNewFiles
  <2>4. /\ DOMAIN output' = {1}
        /\ output'[1].files = files' /\ output'[1].error = error'
    BY <2>1
  <2>5. ResponseIsWhole'
    BY <2>3, <2>4 DEF ResponseIsWhole
  <2>6. OutcomeInv'
    BY <2>1 DEF OutcomeInv
  <2> QED
    BY <2>5, <2>6
<1>5. CASE WriteRaisesAgain \/ FlushFails
  <2>1. /\ output = <<>> /\ step' = "exited" /\ status' \in {1, 120} /\ output' = output
    BY <1>5 DEF WriteRaisesAgain, FlushFails, Exit, Goto, IndInv, OutcomeInv
  <2> QED
    BY <1>2, <2>1 DEF OutcomeInv
<1>6. CASE ReadBad \/ WriteRaises \/ FileFails
  <2>1. /\ output = <<>> /\ status = NULL /\ UNCHANGED <<output, status>>
        /\ step' \in {"fatal", "failed"} /\ error' = TRUE
    BY <1>6 DEF ReadBad, WriteRaises, FileFails, Fatal, Goto, IndInv, OutcomeInv
  <2> QED
    BY <1>2, <2>1 DEF OutcomeInv
<1>7. CASE \/ ReadRequest \/ SkipFile \/ AddHeader \/ GenerateHeader \/ GenerateSource
           \/ LoopEnds
  <2>1. /\ output = <<>> /\ status = NULL /\ ~error /\ UNCHANGED <<output, status, error>>
        /\ step' \in {"loop", "header", "source", "write"}
    BY <1>7 DEF ReadRequest, SkipFile, AddHeader, GenerateHeader, GenerateSource, LoopEnds,
       Looping, Goto, IndInv, OutcomeInv
  <2> QED
    BY <1>2, <2>1 DEF OutcomeInv
<1> QED
  BY <1>3, <1>4, <1>5, <1>6, <1>7 DEF Next, Exited

(* IndInv is an invariant of the plugin.                                   *)
THEOREM PluginInvariant == Spec => []IndInv
<1>1. IndInv /\ [Next]_vars => IndInv'
  BY FilesPreserved, PassedPreserved, OutcomePreserved DEF IndInv
<1> QED
  BY <1>1, InitEstablishes, PTL DEF Spec

(* protoc gets at most one response, whatever fails and whenever, and the  *)
(* exit status is 0 exactly if it got one without an error.                *)
THEOREM StatusIsTrue == Spec => []StatusTellsError
<1>1. IndInv => StatusTellsError
  <2> SUFFICES ASSUME IndInv PROVE StatusTellsError
    OBVIOUS
  <2>1. CASE step # "exited"
    BY <2>1 DEF IndInv, OutcomeInv, StatusTellsError
  <2>2. CASE step = "exited" /\ output = <<>>
    BY <2>2 DEF IndInv, OutcomeInv, StatusTellsError
  <2>3. CASE step = "exited" /\ output = <<[files |-> files, error |-> error]>>
    <3>1. /\ Len(output) = 1
          /\ output # <<>>
          /\ output[1].error = error
      BY <2>3
    <3>2. error \in BOOLEAN /\ status = IF error THEN 1 ELSE 0
      BY <2>3, <3>1 DEF IndInv, TypeOK, OutcomeInv
    <3> QED
      BY <3>1, <3>2 DEF StatusTellsError
  <2> QED
    BY <2>1, <2>2, <2>3 DEF IndInv, OutcomeInv
<1> QED
  BY <1>1, PluginInvariant, PTL

(* A response without an error has both files of each wanted file and      *)
(* nothing else, and one with an error those before the file that failed.  *)
THEOREM ResponsesAreWhole == Spec => []ResponseIsWhole
<1>1. IndInv => ResponseIsWhole
  BY DEF IndInv
<1> QED
  BY <1>1, PluginInvariant, PTL

(***************************************************************************)
(* The names of what is generated.                                         *)
(***************************************************************************)

(* The names of headers, and those of sources, are as different as those   *)
(* of their files; a header has the name of a source only if that is the   *)
(* name of a file without ".proto" in it.                                  *)
LEMMA NamesDiffer ==
  ASSUME PlainNames, NEW a \in Names, NEW b \in Names
  PROVE  /\ HeaderName(a) = HeaderName(b) => a = b
         /\ SourceName(a) = SourceName(b) => a = b
         /\ HeaderName(a) = SourceName(b) => ".proto" \notin ToSet(a)
         /\ ".proto" \notin ToSet(a) => HeaderName(a) = SourceName(a)
<1>1. a \in Seq(STRING) /\ b \in Seq(STRING)
  BY NamesAssumption
<1>2. /\ \A i \in DOMAIN a : a[i] \notin {".pb.h", ".pb.cc"}
      /\ \A i \in DOMAIN b : b[i] \notin {".pb.h", ".pb.cc"}
  BY DEF PlainNames, ToSet
<1>3. ASSUME NEW extension \in {".pb.h", ".pb.cc"}, Replaced(a, extension) = Replaced(b, extension)
      PROVE  a = b
  <2>1. DOMAIN a = DOMAIN b
    BY <1>3 DEF Replaced
  <2>2. ASSUME NEW i \in DOMAIN a
        PROVE  a[i] = b[i]
    <3>1. Replaced(a, extension)[i] = Replaced(b, extension)[i]
      BY <1>3
    <3>2. /\ Replaced(a, extension)[i] = IF a[i] = ".proto" THEN extension ELSE a[i]
          /\ Replaced(b, extension)[i] = IF b[i] = ".proto" THEN extension ELSE b[i]
      BY <2>1, <2>2 DEF Replaced
    <3> QED
      BY <1>2, <1>3, <2>1, <3>1, <3>2
  <2> QED
    BY <1>1, <2>1, <2>2
<1>4. HeaderName(a) = SourceName(b) => ".proto" \notin ToSet(a)
  <2> SUFFICES ASSUME HeaderName(a) = SourceName(b), NEW i \in DOMAIN a, a[i] = ".proto"
               PROVE  FALSE
    BY DEF ToSet
  <2>1. DOMAIN a = DOMAIN b
    BY DEF HeaderName, SourceName, Replaced
  <2>2. HeaderName(a)[i] = ".pb.h"
    BY DEF HeaderName, Replaced
  <2>3. SourceName(b)[i] = IF b[i] = ".proto" THEN ".pb.cc" ELSE b[i]
    BY <2>1 DEF SourceName, Replaced
  <2> QED
    BY <1>2, <2>1, <2>2, <2>3
<1>5. ".proto" \notin ToSet(a) => HeaderName(a) = SourceName(a)
  BY DEF HeaderName, SourceName, Replaced, ToSet
<1> QED
  BY <1>3, <1>4, <1>5 DEF HeaderName, SourceName

(* A set of natural numbers that is not empty has a least element.         *)
LEMMA SetsHaveLeast ==
  ASSUME NEW S \in SUBSET Nat, S # {}
  PROVE  \E n \in S : \A m \in S : n <= m
<1> DEFINE R == OpToRel(<, Nat)
<1>1. IsWellFoundedOn(R, Nat)
  BY NatLessThanWellFounded
<1>2. \A n, m \in Nat : <<m, n>> \in R <=> m < n
  BY DEF OpToRel
<1> HIDE DEF R
<1>3. PICK n \in S : \A m \in S : ~ (<<m, n>> \in R)
  BY <1>1, WFMin
<1>4. \A m \in S : ~ (m < n)
  BY <1>2, <1>3, Zenon
<1> QED
  BY <1>4

(* Every place up to the count is that of an entry: what the places of the *)
(* entries leave out would be between two counts that follow each other.   *)
LEMMA NoGaps ==
  ASSUME NEW n \in Nat, NEW k \in 1 .. 2 * WantedUpTo(n)
  PROVE  \E i \in 1 .. n : request[i].wanted /\ k \in {2 * WantedUpTo(i) - 1, 2 * WantedUpTo(i)}
<1> DEFINE S == {i \in 0 .. n : k <= 2 * WantedUpTo(i)}
<1>1. S \in SUBSET Nat /\ n \in S
  BY WantedIsMonotone
<1> HIDE DEF S
<1>2. PICK i \in S : \A m \in S : i <= m
  BY <1>1, SetsHaveLeast
<1>3. i \in 0 .. n /\ k <= 2 * WantedUpTo(i)
  BY DEF S
<1>4. WantedUpTo(0) = 0
  BY WantedGrows
<1>5. i \in 1 .. n
  BY <1>3, <1>4, WantedIsMonotone
<1>6. /\ WantedUpTo(i - 1) \in Nat
      /\ WantedUpTo(i) = IF request[i].wanted THEN WantedUpTo(i - 1) + 1 ELSE WantedUpTo(i - 1)
  BY <1>5, WantedGrows
<1>7. ~ (k <= 2 * WantedUpTo(i - 1))
  <2>1. i - 1 \in 0 .. n /\ ~ (i <= i - 1)
    BY <1>5
  <2>2. i - 1 \notin S
    BY <1>2, <2>1
  <2> QED
    BY <2>1, <2>2 DEF S
<1> QED
  BY <1>3, <1>5, <1>6, <1>7

(* The entries of a complete response have different names, if only each   *)
(* file generated has ".proto" in its name; one that does not gets twice   *)
(* its own.                                                                *)
THEOREM OutputsAreDistinct ==
  ASSUME PlainNames
  PROVE  Spec => []OutputsDistinct
<1>1. IndInv => OutputsDistinct
  <2> SUFFICES ASSUME IndInv, status = 0
               PROVE  OutputsDistinct
    BY DEF OutputsDistinct
  <2> DEFINE n == Len(request)
             name(k) == files[k].name
  <2>1. step = "exited" /\ output = <<[files |-> files, error |-> error]>> /\ ~error
    BY NullAssumption DEF IndInv, TypeOK, OutcomeInv
  <2>2. request \in Seq(File) /\ Sorted(request)
    BY <2>1 DEF IndInv, TypeOK, FilesInv
  <2>3. files \in Seq(Entries)
    <3>1. <<>> \in Seq(Entries)
      OBVIOUS
    <3> QED
      BY <3>1 DEF IndInv, TypeOK
  <2>4. Generated(files, n)
    <3>1. DOMAIN output = {1} /\ output[1].files = files /\ output[1].error = error
      BY <2>1
    <3> QED
      BY <2>1, <3>1 DEF IndInv, ResponseIsWhole
  <2>5. n \in Nat /\ DOMAIN files = 1 .. 2 * WantedUpTo(n)
    BY <2>2, <2>3, <2>4 DEF Generated
  <2>6. ASSUME NEW i \in 1 .. n
        PROVE  request[i].name \in Names
    <3>1. request[i] \in File
      BY <2>2, <2>6
    <3>2. \A file \in File : file.name \in Names
      BY DEF File
    <3> QED
      BY <3>1, <3>2
  <2>7. ASSUME NEW i \in 1 .. n, request[i].wanted
        PROVE  /\ 2 * WantedUpTo(i) - 1 \in DOMAIN files
               /\ 2 * WantedUpTo(i) \in DOMAIN files
               /\ name(2 * WantedUpTo(i) - 1) = HeaderName(request[i].name)
               /\ name(2 * WantedUpTo(i)) = SourceName(request[i].name)
               /\ WantedUpTo(i) \in Nat
    <3>1. /\ 2 * WantedUpTo(i) - 1 \in DOMAIN files
          /\ 2 * WantedUpTo(i) \in DOMAIN files
          /\ WantedUpTo(i) \in Nat
      <4>1. /\ 2 * WantedUpTo(i) - 1 \in 1 .. 2 * WantedUpTo(n)
            /\ 2 * WantedUpTo(i) \in 1 .. 2 * WantedUpTo(n)
        BY <2>5, <2>7, PlacesAreInside
      <4>2. WantedUpTo(i) \in Nat
        BY <2>5, <2>7, WantedIsMonotone
      <4> QED
        BY <2>5, <4>1, <4>2
    <3>2. /\ files[2 * WantedUpTo(i) - 1] = Header(request[i])
          /\ files[2 * WantedUpTo(i)] = Source(request[i])
      BY <2>4, <2>7 DEF Generated, Begins
    <3>3. /\ Header(request[i]).name = HeaderName(request[i].name)
          /\ Source(request[i]).name = SourceName(request[i].name)
      BY DEF Header, Source
    <3> QED
      BY <3>1, <3>2, <3>3
  <2>8. ASSUME NEW k \in DOMAIN files
        PROVE  \E i \in 1 .. n :
                 /\ request[i].wanted
                 /\ \/ k = 2 * WantedUpTo(i) - 1 /\ name(k) = HeaderName(request[i].name)
                    \/ k = 2 * WantedUpTo(i) /\ name(k) = SourceName(request[i].name)
    <3>1. PICK i \in 1 .. n :
            request[i].wanted /\ k \in {2 * WantedUpTo(i) - 1, 2 * WantedUpTo(i)}
      BY <2>5, NoGaps
    <3> QED
      BY <2>7, <3>1
  <2> HIDE DEF name
  <2>9. ASSUME NEW i \in 1 .. n, request[i].wanted, ".proto" \notin ToSet(request[i].name)
        PROVE  \E k, m \in DOMAIN files : name(k) = name(m) /\ k # m
    <3>1. HeaderName(request[i].name) = SourceName(request[i].name)
      BY <2>6, <2>9, NamesDiffer
    <3>2. 2 * WantedUpTo(i) - 1 # 2 * WantedUpTo(i)
      BY <2>7, <2>9
    <3> QED
      BY <2>7, <2>9, <3>1, <3>2
  <2>10. ASSUME \A i \in 1 .. n : request[i].wanted => ".proto" \in ToSet(request[i].name),
                NEW k \in DOMAIN files, NEW m \in DOMAIN files, name(k) = name(m)
         PROVE  k = m
    <3>1. PICK i \in 1 .. n :
            /\ request[i].wanted
            /\ \/ k = 2 * WantedUpTo(i) - 1 /\ name(k) = HeaderName(request[i].name)
               \/ k = 2 * WantedUpTo(i) /\ name(k) = SourceName(request[i].name)
      BY <2>8
    <3>2. PICK j \in 1 .. n :
            /\ request[j].wanted
            /\ \/ m = 2 * WantedUpTo(j) - 1 /\ name(m) = HeaderName(request[j].name)
               \/ m = 2 * WantedUpTo(j) /\ name(m) = SourceName(request[j].name)
      BY <2>8
    <3>3. /\ ".proto" \in ToSet(request[i].name) /\ ".proto" \in ToSet(request[j].name)
          /\ request[i].name \in Names /\ request[j].name \in Names
      BY <2>6, <2>10, <3>1, <3>2
    <3>4. request[i].name = request[j].name => i = j
      BY <2>2 DEF Sorted, IsInjective
    <3> QED
      BY <2>10, <3>1, <3>2, <3>3, <3>4, NamesDiffer
  <2>11. /\ output[1].files = files
         /\ DOMAIN request = 1 .. n
    BY <2>1, <2>2
  <2> QED
    BY <2>9, <2>10, <2>11 DEF OutputsDistinct, IsInjective, name
<1> QED
  BY <1>1, PluginInvariant, PTL


(***************************************************************************)
(* What a compiler makes of the sources.  The source of file i is read,    *)
(* line by line.                                                           *)
(***************************************************************************)

Known == request \in Seq(File) /\ Sorted(request)

Name(k)  == request[k].name
Guard(k) == header_guard(Name(k))
Needs(k) == ToSet(request[k].dependency)
Own(i)   == Imports(i) \cup {i}

(* Is the header of k found under the name by which it is included?  The   *)
(* source includes its own under the name that it has.                     *)
Found(i, k) ==
  ~ HeaderRaises(request[k]) /\ (k = i \/ HeaderName(Name(k)) = IncludeName(Name(k)))

(* The two kinds of lines.                                                 *)
Asked(i, k) == Line("include", IF k = i THEN HeaderName(Name(k)) ELSE IncludeName(Name(k)))
Said(k)     == Line("body", Name(k))

LEMMA FilesAreTyped ==
  ASSUME Known, NEW k \in DOMAIN request
  PROVE  /\ DOMAIN request = 1 .. Len(request) /\ Len(request) \in Nat
         /\ request[k] \in File
         /\ Name(k) \in Names /\ Name(k) \in Seq(STRING) /\ Name(k) # <<>>
         /\ request[k].dependency \in Seq(1 .. MaxFiles - 1)
         /\ DOMAIN request[k].dependency = 1 .. Len(request[k].dependency)
         /\ Len(request[k].dependency) \in 0 .. MaxFiles - 1
         /\ Needs(k) \subseteq 1 .. k - 1
         /\ \A j \in DOMAIN request : Name(j) = Name(k) => j = k
<1>1. /\ DOMAIN request = 1 .. Len(request) /\ Len(request) \in Nat
      /\ request[k] \in File
  BY DEF Known
<1>2. Name(k) \in Names /\ Name(k) \in Seq(STRING) /\ Name(k) # <<>>
  BY <1>1, NamesAssumption DEF File, Name
<1>3. PICK m \in 0 .. MaxFiles - 1 : request[k].dependency \in [1 .. m -> 1 .. MaxFiles - 1]
  BY <1>1, MaxFilesAssumption DEF File, BoundedSeq, SeqOf
<1>4. /\ request[k].dependency \in Seq(1 .. MaxFiles - 1)
      /\ DOMAIN request[k].dependency = 1 .. Len(request[k].dependency)
      /\ Len(request[k].dependency) \in 0 .. MaxFiles - 1
  BY <1>3, MaxFilesAssumption
<1>5. Needs(k) \subseteq 1 .. k - 1
  <2> SUFFICES ASSUME NEW d \in Needs(k)
               PROVE  d \in 1 .. k - 1
    OBVIOUS
  <2>1. d < k
    BY DEF Known, Sorted, Needs
  <2>2. d \in 1 .. MaxFiles - 1
    BY <1>3 DEF Needs, ToSet
  <2> QED
    BY <1>1, <2>1, <2>2, MaxFilesAssumption
<1>6. ASSUME NEW j \in DOMAIN request, Name(j) = Name(k)
      PROVE  j = k
  BY <1>6 DEF Known, Sorted, Name, IsInjective
<1> QED
  BY <1>1, <1>2, <1>4, <1>5, <1>6

(* Imports, and theirs, come before i.                                     *)
LEMMA ImportsAreClosed ==
  ASSUME Known, NEW i \in DOMAIN request
  PROVE  /\ Imports(i) \subseteq 1 .. i - 1
         /\ \A k \in Own(i) : k \in DOMAIN request /\ Needs(k) \subseteq Imports(i)
         /\ \A S \in SUBSET DOMAIN request :
              (\A k \in S \cup {i} : Needs(k) \subseteq S) => Imports(i) \subseteq S
<1>1. \A S \in SUBSET DOMAIN request :
        (\A k \in S \cup {i} : Needs(k) \subseteq S) => Imports(i) \subseteq S
  BY DEF Imports, Needs
<1>2. /\ DOMAIN request = 1 .. Len(request) /\ Len(request) \in Nat
      /\ \A k \in DOMAIN request : Needs(k) \subseteq 1 .. k - 1
  BY FilesAreTyped
<1>3. Imports(i) \subseteq 1 .. i - 1
  <2>1. 1 .. i - 1 \in SUBSET DOMAIN request /\ (1 .. i - 1) \cup {i} \subseteq DOMAIN request
    BY <1>2
  <2>2. ASSUME NEW k \in (1 .. i - 1) \cup {i}
        PROVE  Needs(k) \subseteq 1 .. i - 1
    BY <1>2, <2>1
  <2> QED
    BY <1>1, <2>1, <2>2
<1>4. ASSUME NEW k \in Own(i)
      PROVE  k \in DOMAIN request /\ Needs(k) \subseteq Imports(i)
  <2>1. k \in DOMAIN request
    BY DEF Own, Imports
  <2>2. Needs(k) \subseteq DOMAIN request
    BY <1>2, <2>1
  <2>3. ASSUME NEW d \in Needs(k), NEW S \in SUBSET DOMAIN request,
               \A j \in S \cup {i} : Needs(j) \subseteq S
        PROVE  d \in S
    <3>1. k \in S \cup {i}
      BY <1>1, <2>3 DEF Own
    <3> QED
      BY <2>3, <3>1
  <2> QED
    BY <2>1, <2>2, <2>3 DEF Imports, Needs
<1> QED
  BY <1>1, <1>3, <1>4

(***************************************************************************)
(* Where an #include leads.                                                *)
(***************************************************************************)

(* A name of a header that is included and that no file has still has      *)
(* ".proto" in it.                                                         *)
LEMMA IncludesArePlain ==
  ASSUME PlainNames, NEW a \in Names, NEW b \in Names, IncludeName(a) = HeaderName(b)
  PROVE  HeaderName(a) = IncludeName(a)
<1> DEFINE n == Len(a)
           x == IncludeName(a)
<1>1. a \in Seq(STRING) /\ a # <<>> /\ n \in Nat \ {0} /\ DOMAIN a = 1 .. n
  BY NamesAssumption
<1>2. x = [k \in 1 .. n |-> IF k = n /\ a[k] = ".proto" THEN ".pb.h" ELSE a[k]]
  <2>1. Last(a) = a[n]
    BY DEF Last
  <2>2. CASE a[n] = ".proto"
    <3>1. x = Append(Front(a), ".pb.h")
      BY <2>1, <2>2 DEF IncludeName
    <3>2. Front(a) = [k \in 1 .. n - 1 |-> a[k]]
      BY <1>1 DEF Front
    <3> DEFINE y == Front(a)
    <3>3. y \in Seq(STRING) /\ Len(y) = n - 1 /\ \A k \in 1 .. n - 1 : y[k] = a[k]
      <4>1. \A k \in 1 .. n - 1 : a[k] \in STRING
        BY <1>1
      <4> HIDE DEF y
      <4>2. y \in [1 .. n - 1 -> STRING] /\ \A k \in 1 .. n - 1 : y[k] = a[k]
        BY <3>2, <4>1 DEF y
      <4>3. n - 1 \in Nat
        BY <1>1
      <4> QED
        BY <4>2, <4>3
    <3> HIDE DEF x, y
    <3>4. x = [k \in 1 .. n |-> x[k]]
      <4>1. x \in Seq(STRING \cup {".pb.h"}) /\ Len(x) = n
        <5>1. Len(y) + 1 = n
          BY <1>1, <3>3
        <5>2. x = Append(y, ".pb.h")
          BY <3>1 DEF y
        <5>3. y \in Seq(STRING \cup {".pb.h"}) /\ ".pb.h" \in STRING \cup {".pb.h"}
          BY <3>3
        <5> HIDE DEF n
        <5>4. Append(y, ".pb.h") \in Seq(STRING \cup {".pb.h"})
              /\ Len(Append(y, ".pb.h")) = Len(y) + 1
          BY <3>3, <5>3
        <5> QED
          BY <5>1, <5>2, <5>4
      <4> QED
        BY <4>1
    <3>5. ASSUME NEW k \in 1 .. n
          PROVE  x[k] = IF k = n /\ a[k] = ".proto" THEN ".pb.h" ELSE a[k]
      <4>1. Len(y) = n - 1 /\ n \in Nat \ {0}
        BY <1>1, <3>3
      <4>2. x = Append(y, ".pb.h")
        BY <3>1 DEF y
      <4> HIDE DEF n
      <4>3. CASE k = n
        <5>1. k = Len(y) + 1
          BY <4>1, <4>3
        <5>2. x[k] = ".pb.h"
          BY <3>3, <4>2, <5>1
        <5> QED
          BY <2>2, <4>3, <5>2
      <4>4. CASE k # n
        <5>1. k \in 1 .. Len(y) /\ k \in 1 .. n - 1
          BY <4>1, <4>4
        <5>2. x[k] = y[k]
          BY <3>3, <4>2, <5>1
        <5> QED
          BY <3>3, <4>4, <5>1, <5>2
      <4> QED
        BY <4>3, <4>4
    <3> QED
      BY <3>4, <3>5
  <2>3. CASE a[n] # ".proto"
    <3>1. x = a
      BY <2>1, <2>3 DEF IncludeName
    <3>2. a = [k \in 1 .. n |-> a[k]]
      BY <1>1
    <3> HIDE DEF x
    <3> QED
      BY <2>3, <3>1, <3>2
  <2> QED
    BY <2>2, <2>3
<1>3. \A k \in DOMAIN x : x[k] # ".proto"
  BY DEF HeaderName, Replaced
<1>4. HeaderName(a) = [k \in 1 .. n |-> IF a[k] = ".proto" THEN ".pb.h" ELSE a[k]]
  BY <1>1 DEF HeaderName, Replaced
<1> HIDE DEF x
<1>5. \A k \in 1 .. n : (IF a[k] = ".proto" THEN ".pb.h" ELSE a[k])
                          = IF k = n /\ a[k] = ".proto" THEN ".pb.h" ELSE a[k]
  BY <1>2, <1>3
<1>6. HeaderName(a) = x
  BY <1>2, <1>4, <1>5
<1> QED
  BY <1>6 DEF x

LEMMA HeadersAreFound ==
  ASSUME PlainNames, Known, NEW i \in DOMAIN request, NEW k \in Own(i)
  PROVE  /\ Asked(i, k).kind = "include"
         /\ Found(i, k) => HeadersOf(Asked(i, k).name) = {request[k]}
         /\ ~ Found(i, k) => HeadersOf(Asked(i, k).name) = {}
<1>1. /\ k \in DOMAIN request /\ request[k] \in ToSet(request)
      /\ Name(k) \in Names
      /\ \A j \in DOMAIN request : Name(j) \in Names /\ (Name(j) = Name(k) => j = k)
  BY FilesAreTyped, ImportsAreClosed DEF ToSet
<1>2. \A file \in ToSet(request) : \E j \in DOMAIN request : file = request[j]
  BY DEF ToSet
<1>3. ASSUME Found(i, k)
      PROVE  HeadersOf(Asked(i, k).name) = {request[k]}
  <2>1. Asked(i, k).name = HeaderName(Name(k))
    BY <1>3 DEF Asked, Line, Found
  <2>2. \A j \in DOMAIN request : HeaderName(Name(j)) = HeaderName(Name(k)) => j = k
    BY <1>1, NamesDiffer
  <2>3. ~ HeaderRaises(request[k])
    BY <1>3 DEF Found
  <2> QED
    BY <1>1, <1>2, <2>1, <2>2, <2>3 DEF HeadersOf, Name
<1>4. ASSUME ~ Found(i, k)
      PROVE  HeadersOf(Asked(i, k).name) = {}
  <2>1. CASE k = i \/ HeaderName(Name(k)) = IncludeName(Name(k))
    <3>1. Asked(i, k).name = HeaderName(Name(k)) /\ HeaderRaises(request[k])
      BY <1>4, <2>1 DEF Asked, Line, Found
    <3>2. \A j \in DOMAIN request : HeaderName(Name(j)) = HeaderName(Name(k)) => j = k
      BY <1>1, NamesDiffer
    <3> QED
      BY <1>2, <3>1, <3>2 DEF HeadersOf, Name
  <2>2. CASE k # i /\ HeaderName(Name(k)) # IncludeName(Name(k))
    <3>1. Asked(i, k).name = IncludeName(Name(k))
      BY <2>2 DEF Asked, Line
    <3>2. \A j \in DOMAIN request : HeaderName(Name(j)) # IncludeName(Name(k))
      BY <1>1, <2>2, IncludesArePlain
    <3> QED
      BY <1>2, <3>1, <3>2 DEF HeadersOf, Name
  <2> QED
    BY <2>1, <2>2
<1> QED
  BY <1>3, <1>4 DEF Asked, Line

(***************************************************************************)
(* What the preprocessor does with a line.                                 *)
(***************************************************************************)

AllLines(i) == {Asked(i, k) : k \in Own(i)} \cup {Said(k) : k \in Own(i)}

Usual(i, unit) ==
  /\ unit = Part(unit.guards, unit.bodies, unit.missing, unit.text)
  /\ unit.bodies \in Seq(Names)
  /\ unit.text \in Seq(AllLines(i))
  /\ \A p \in DOMAIN unit.text : unit.text[p].kind = "body" =>
       /\ header_guard(unit.text[p].name) \in unit.guards
       /\ \E k \in Own(i) : Found(i, k) /\ unit.text[p] = Said(k)

Wanted(k) == Lines(includes(request, request[k]))

Takes(i, k, u, v) ==
  /\ u.text[1] = Said(k)
  /\ v = Part(u.guards, Append(u.bodies, Name(k)), u.missing, Tail(u.text))

Misses(i, k, u, v) ==
  /\ u.text[1] = Asked(i, k) /\ ~ Found(i, k)
  /\ v = Part(u.guards, u.bodies, u.missing \cup {Asked(i, k).name}, Tail(u.text))

Passes(i, k, u, v) ==
  /\ u.text[1] = Asked(i, k) /\ Found(i, k) /\ Guard(k) \in u.guards
  /\ v = Part(u.guards, u.bodies, u.missing, Tail(u.text))

Enters(i, k, u, v) ==
  /\ u.text[1] = Asked(i, k) /\ Found(i, k) /\ Guard(k) \notin u.guards
  /\ v = Part(u.guards \cup {Guard(k)}, u.bodies, u.missing,
              (Wanted(k) \o <<Said(k)>>) \o Tail(u.text))

LEMMA LineIsRead ==
  ASSUME PlainNames, Known, NEW i \in DOMAIN request, NEW u, Usual(i, u), u.text # <<>>
  PROVE  \E k \in Own(i) : \/ Takes(i, k, u, Preprocess(u)) \/ Misses(i, k, u, Preprocess(u))
                           \/ Passes(i, k, u, Preprocess(u)) \/ Enters(i, k, u, Preprocess(u))
<1> DEFINE line   == Head(u.text)
           rest   == Tail(u.text)
           file   == CHOOSE file \in HeadersOf(line.name) : TRUE
           header == generate_header(request, file)
           v      == Preprocess(u)
<1>1. v = IF line.kind = "body"
            THEN Part(u.guards, Append(u.bodies, line.name), u.missing, rest)
          ELSE IF HeadersOf(line.name) = {}
            THEN Part(u.guards, u.bodies, u.missing \cup {line.name}, rest)
          ELSE IF header.guard \in u.guards
            THEN Part(u.guards, u.bodies, u.missing, rest)
          ELSE Part(u.guards \cup {header.guard}, u.bodies, u.missing,
                    (Lines(header.includes) \o <<Line("body", header.body)>>) \o rest)
  BY DEF Preprocess
<1>2. line = u.text[1] /\ line \in AllLines(i)
  BY DEF Usual
<1> HIDE DEF v, line, rest
<1>3. CASE \E k \in Own(i) : line = Said(k)
  <2>1. PICK k \in Own(i) : line = Said(k)
    BY <1>3
  <2>2. line.kind = "body" /\ line.name = Name(k)
    BY <2>1 DEF Said, Line
  <2>3. Takes(i, k, u, v)
    BY <1>1, <1>2, <2>1, <2>2 DEF Takes, rest
  <2> QED
    BY <2>3 DEF v
<1>4. CASE \E k \in Own(i) : line = Asked(i, k)
  <2>1. PICK k \in Own(i) : line = Asked(i, k)
    BY <1>4
  <2>2. line.kind # "body" /\ line.name = Asked(i, k).name
    BY <2>1 DEF Asked, Line
  <2>3. CASE Found(i, k)
    <3>1. HeadersOf(line.name) = {request[k]}
      BY <2>2, <2>3, HeadersAreFound
    <3>2. HeadersOf(line.name) # {} /\ file = request[k]
      BY <3>1
    <3>3. header.guard = Guard(k) /\ header.body = Name(k) /\ header.includes = includes(request, request[k])
      BY <3>2 DEF generate_header, Guard, Name
    <3> HIDE DEF header
    <3>4. v = IF Guard(k) \in u.guards THEN Part(u.guards, u.bodies, u.missing, rest)
              ELSE Part(u.guards \cup {Guard(k)}, u.bodies, u.missing,
                        (Wanted(k) \o <<Said(k)>>) \o rest)
      BY <1>1, <2>2, <3>2, <3>3 DEF Wanted, Said
    <3>5. Passes(i, k, u, v) \/ Enters(i, k, u, v)
      BY <1>2, <2>1, <2>3, <3>4 DEF Passes, Enters, rest
    <3> QED
      BY <3>5 DEF v
  <2>4. CASE ~ Found(i, k)
    <3>1. HeadersOf(line.name) = {}
      BY <2>2, <2>4, HeadersAreFound
    <3>2. Misses(i, k, u, v)
      BY <1>1, <1>2, <2>1, <2>2, <2>4, <3>1 DEF Misses, rest
    <3> QED
      BY <3>2 DEF v
  <2> QED
    BY <2>3, <2>4
<1> QED
  BY <1>2, <1>3, <1>4 DEF AllLines

(* The lines that take the place of an #include.                           *)
LEMMA WantedLines ==
  ASSUME Known, NEW i \in DOMAIN request, NEW k \in Own(i)
  PROVE  /\ Wanted(k) \in Seq({Asked(i, d) : d \in Imports(i)})
         /\ Len(Wanted(k)) \in 0 .. MaxFiles - 1
         /\ \A p \in 1 .. Len(Wanted(k)) : \E d \in Needs(k) : Wanted(k)[p] = Asked(i, d)
         /\ \A d \in Needs(k) : \E p \in 1 .. Len(Wanted(k)) : Wanted(k)[p] = Asked(i, d)
<1> DEFINE dep == request[k].dependency
           n   == Len(dep)
           w   == Wanted(k)
<1>1. k \in DOMAIN request /\ Needs(k) \subseteq Imports(i) /\ Imports(i) \subseteq 1 .. i - 1
  BY ImportsAreClosed
<1>2. DOMAIN dep = 1 .. n /\ n \in 0 .. MaxFiles - 1 /\ n \in Nat
  BY <1>1, FilesAreTyped, MaxFilesAssumption
<1>3. /\ \A p \in 1 .. n : dep[p] \in Needs(k)
      /\ \A d \in Needs(k) : \E p \in 1 .. n : d = dep[p]
  BY <1>2 DEF Needs, ToSet
<1>4. \A d \in Needs(k) : Asked(i, d) = Line("include", IncludeName(Name(d)))
  <2>1. i \notin 1 .. i - 1
    BY FilesAreTyped
  <2> QED
    BY <1>1, <2>1 DEF Asked
<1>5. w = [p \in 1 .. n |-> Line("include", IncludeName(Name(dep[p])))]
  <2> HIDE DEF n
  <2>1. includes(request, request[k]) = [p \in 1 .. n |-> IncludeName(Name(dep[p]))]
    BY <1>2 DEF includes, Name
  <2> QED
    BY <2>1 DEF Wanted, Lines
<1>6. \A p \in 1 .. n : w[p] = Asked(i, dep[p])
  BY <1>3, <1>4, <1>5
<1> HIDE DEF w, n
<1>7. w \in [1 .. n -> {Asked(i, d) : d \in Imports(i)}]
  <2>1. \A p \in 1 .. n : w[p] \in {Asked(i, d) : d \in Imports(i)}
    BY <1>1, <1>3, <1>6
  <2> QED
    BY <1>5, <2>1
<1>8. w \in Seq({Asked(i, d) : d \in Imports(i)}) /\ Len(w) = n
  BY <1>2, <1>7
<1> QED
  BY <1>2, <1>3, <1>6, <1>8 DEF w

LEMMA TextWithoutLine ==
  ASSUME NEW S, NEW t \in Seq(S), t # <<>>
  PROVE  /\ Tail(t) \in Seq(S) /\ Len(Tail(t)) = Len(t) - 1 /\ Len(t) \in Nat \ {0}
         /\ DOMAIN Tail(t) = 1 .. Len(t) - 1 /\ DOMAIN t = 1 .. Len(t)
         /\ \A p \in 1 .. Len(t) - 1 : Tail(t)[p] = t[p + 1]
OBVIOUS

Inserted(S, w, x, t, e) ==
  /\ e \in Seq(S) /\ Len(e) = Len(w) + Len(t) /\ DOMAIN e = 1 .. Len(w) + Len(t)
  /\ Len(t) \in Nat \ {0} /\ Len(w) \in Nat
  /\ \A p \in 1 .. Len(w) : e[p] = w[p]
  /\ e[Len(w) + 1] = x
  /\ \A p \in Len(w) + 2 .. Len(w) + Len(t) : e[p] = t[p - Len(w)]

LEMMA TextWithHeader ==
  ASSUME NEW S, NEW w \in Seq(S), NEW x \in S, NEW t \in Seq(S), t # <<>>
  PROVE  Inserted(S, w, x, t, (w \o <<x>>) \o Tail(t))
<1> DEFINE n == Len(w)
           a == w \o <<x>>
           b == Tail(t)
           e == a \o b
<1>1. /\ a \in Seq(S) /\ Len(a) = n + 1 /\ n \in Nat /\ a[n + 1] = x
      /\ \A p \in 1 .. n : a[p] = w[p]
  OBVIOUS
<1>2. /\ b \in Seq(S) /\ Len(b) = Len(t) - 1 /\ Len(t) \in Nat \ {0}
      /\ \A p \in 1 .. Len(t) - 1 : b[p] = t[p + 1]
  BY TextWithoutLine
<1> HIDE DEF n, a, b
<1>3. /\ e \in Seq(S) /\ Len(e) = Len(a) + Len(b)
      /\ \A p \in 1 .. Len(a) : e[p] = a[p]
      /\ \A p \in Len(a) + 1 .. Len(a) + Len(b) : e[p] = b[p - Len(a)]
  <2>1. a \in Seq(S) /\ b \in Seq(S) /\ Len(a) \in Nat /\ Len(b) \in Nat
    BY <1>1, <1>2
  <2>2. e \in Seq(S) /\ Len(e) = Len(a) + Len(b)
    BY <2>1
  <2>3. \A p \in 1 .. Len(a) : e[p] = a[p]
    BY <2>1
  <2>4. \A p \in Len(a) + 1 .. Len(a) + Len(b) : e[p] = b[p - Len(a)]
    BY <2>1
  <2> QED
    BY <2>2, <2>3, <2>4
<1>4. DOMAIN e = 1 .. Len(e)
  BY <1>3
<1> HIDE DEF e
<1>5. ASSUME NEW p \in n + 2 .. n + Len(t)
      PROVE  e[p] = t[p - n]
  <2>1. /\ p \in Len(a) + 1 .. Len(a) + Len(b) /\ p - Len(a) \in 1 .. Len(t) - 1
        /\ (p - Len(a)) + 1 = p - n
    BY <1>1, <1>2
  <2> QED
    BY <1>2, <1>3, <2>1
<1> QED
  BY <1>1, <1>2, <1>3, <1>4, <1>5 DEF e, a, b, n, Inserted

(***************************************************************************)
(* What is true of the unit whatever the names are.                        *)
(***************************************************************************)

(* The bodies, and those that are to come, are from files that are found,  *)
(* and have guards of their own, which are defined.                        *)
Bodies(i, unit) ==
  /\ \A p \in DOMAIN unit.bodies :
       /\ header_guard(unit.bodies[p]) \in unit.guards
       /\ \E k \in Own(i) : Found(i, k) /\ unit.bodies[p] = Name(k)
  /\ \A p, q \in DOMAIN unit.bodies :
       header_guard(unit.bodies[p]) = header_guard(unit.bodies[q]) => p = q

ToCome(unit) ==
  /\ \A p, q \in DOMAIN unit.text :
       /\ unit.text[p].kind = "body" /\ unit.text[q].kind = "body"
       /\ header_guard(unit.text[p].name) = header_guard(unit.text[q].name)
       => p = q
  /\ \A p \in DOMAIN unit.bodies, q \in DOMAIN unit.text :
       unit.text[q].kind = "body" =>
         header_guard(unit.bodies[p]) # header_guard(unit.text[q].name)

Orderly(i, unit) ==
  /\ Usual(i, unit)
  /\ Bodies(i, unit)
  /\ ToCome(unit)
  /\ unit.missing # {} => \E d \in Own(i) : ~ Found(i, d)

(* A line is taken away.                                                   *)
Gone(i, u, v) ==
  /\ v.text \in Seq(AllLines(i)) /\ Len(v.text) = Len(u.text) - 1
  /\ Len(u.text) \in Nat \ {0}
  /\ DOMAIN v.text = 1 .. Len(u.text) - 1 /\ DOMAIN u.text = 1 .. Len(u.text)
  /\ \A p \in DOMAIN v.text : p + 1 \in DOMAIN u.text /\ v.text[p] = u.text[p + 1]
  /\ \A p \in DOMAIN v.text : v.text[p].kind = "body" =>
       /\ header_guard(v.text[p].name) \in v.guards
       /\ \E k \in Own(i) : Found(i, k) /\ v.text[p] = Said(k)
  /\ \A p, q \in DOMAIN v.text :
       /\ v.text[p].kind = "body" /\ v.text[q].kind = "body"
       /\ header_guard(v.text[p].name) = header_guard(v.text[q].name)
       => p = q

LEMMA LineIsGone ==
  ASSUME NEW i, NEW u, Usual(i, u), ToCome(u), u.text # <<>>,
         NEW v, v.guards = u.guards, v.text = Tail(u.text)
  PROVE  Gone(i, u, v)
<1>1. u.text \in Seq(AllLines(i))
  BY DEF Usual
<1>2. /\ v.text \in Seq(AllLines(i)) /\ Len(v.text) = Len(u.text) - 1
      /\ Len(u.text) \in Nat \ {0}
      /\ DOMAIN v.text = 1 .. Len(u.text) - 1 /\ DOMAIN u.text = 1 .. Len(u.text)
      /\ \A p \in 1 .. Len(u.text) - 1 : v.text[p] = u.text[p + 1]
  BY <1>1, TextWithoutLine
<1>3. \A p \in DOMAIN v.text : p + 1 \in DOMAIN u.text /\ v.text[p] = u.text[p + 1]
  BY <1>2
<1>4. \A p \in DOMAIN v.text : v.text[p].kind = "body" =>
        /\ header_guard(v.text[p].name) \in v.guards
        /\ \E k \in Own(i) : Found(i, k) /\ v.text[p] = Said(k)
  BY <1>3 DEF Usual
<1>5. ASSUME NEW p \in DOMAIN v.text, NEW q \in DOMAIN v.text,
             v.text[p].kind = "body", v.text[q].kind = "body",
             header_guard(v.text[p].name) = header_guard(v.text[q].name)
      PROVE  p = q
  <2>1. p + 1 = q + 1
    BY <1>3, <1>5 DEF ToCome
  <2> QED
    BY <1>2, <2>1
<1> QED
  BY <1>2, <1>3, <1>4, <1>5 DEF Gone

(* A body is taken,                                                        *)
LEMMA TakingIsOrderly ==
  ASSUME Known, NEW i \in DOMAIN request, NEW u, Orderly(i, u), u.text # <<>>,
         NEW k \in Own(i), NEW v, Takes(i, k, u, v)
  PROVE  Orderly(i, v)
<1>1. /\ u.text[1] = Said(k) /\ Usual(i, u) /\ Bodies(i, u) /\ ToCome(u)
      /\ v = Part(u.guards, Append(u.bodies, Name(k)), u.missing, Tail(u.text))
  BY DEF Takes, Orderly
<1>2. /\ v.guards = u.guards /\ v.bodies = Append(u.bodies, Name(k)) /\ v.missing = u.missing
      /\ v.text = Tail(u.text) /\ v = Part(v.guards, v.bodies, v.missing, v.text)
  BY <1>1 DEF Part
<1>3. /\ v.text \in Seq(AllLines(i)) /\ Len(u.text) \in Nat \ {0}
      /\ DOMAIN v.text = 1 .. Len(u.text) - 1 /\ DOMAIN u.text = 1 .. Len(u.text)
      /\ \A p \in DOMAIN v.text : p + 1 \in DOMAIN u.text /\ v.text[p] = u.text[p + 1]
      /\ \A p \in DOMAIN v.text : v.text[p].kind = "body" =>
           /\ header_guard(v.text[p].name) \in v.guards
           /\ \E j \in Own(i) : Found(i, j) /\ v.text[p] = Said(j)
      /\ \A p, q \in DOMAIN v.text :
           /\ v.text[p].kind = "body" /\ v.text[q].kind = "body"
           /\ header_guard(v.text[p].name) = header_guard(v.text[q].name)
           => p = q
  <2>1. Gone(i, u, v)
    BY <1>1, <1>2, LineIsGone
  <2> QED
    BY <2>1 DEF Gone
<1> DEFINE n == Len(u.bodies)
<1>4. Name(k) \in Names
  BY ImportsAreClosed, FilesAreTyped
<1>5. /\ u.bodies \in Seq(Names) /\ n \in Nat /\ DOMAIN u.bodies = 1 .. n
      /\ v.bodies \in Seq(Names) /\ DOMAIN v.bodies = 1 .. n + 1
      /\ \A p \in 1 .. n : v.bodies[p] = u.bodies[p]
      /\ v.bodies[n + 1] = Name(k)
  <2>1. u.bodies \in Seq(Names)
    BY <1>1 DEF Usual
  <2> QED
    BY <1>2, <1>4, <2>1
<1>6. u.text[1].kind = "body" /\ u.text[1].name = Name(k) /\ 1 \in DOMAIN u.text
  BY <1>1, <1>3 DEF Said, Line
<1>7. Guard(k) \in u.guards /\ Found(i, k)
  <2>1. PICK j \in Own(i) : Found(i, j) /\ u.text[1] = Said(j)
    BY <1>1, <1>6 DEF Usual
  <2>2. Name(j) = Name(k)
    BY <1>6, <2>1 DEF Said, Line
  <2>3. j = k
    BY <2>2, ImportsAreClosed, FilesAreTyped
  <2>4. header_guard(u.text[1].name) \in u.guards
    BY <1>1, <1>6 DEF Usual
  <2> QED
    BY <1>6, <2>1, <2>3, <2>4 DEF Guard
<1>8. \A p \in 1 .. n : header_guard(u.bodies[p]) # Guard(k)
  BY <1>1, <1>5, <1>6 DEF ToCome, Guard
<1> HIDE DEF n
<1>9. \A p \in DOMAIN v.bodies : p \in 1 .. n \/ p = n + 1
  BY <1>5
<1>10. Bodies(i, v)
  <2>1. ASSUME NEW p \in DOMAIN v.bodies
        PROVE  /\ header_guard(v.bodies[p]) \in v.guards
               /\ \E j \in Own(i) : Found(i, j) /\ v.bodies[p] = Name(j)
    <3>1. CASE p \in 1 .. n
      BY <1>1, <1>2, <1>5, <3>1 DEF Bodies
    <3>2. CASE p = n + 1
      BY <1>2, <1>5, <1>7, <3>2 DEF Guard
    <3> QED
      BY <1>9, <3>1, <3>2
  <2>2. ASSUME NEW p \in DOMAIN v.bodies, NEW q \in DOMAIN v.bodies,
               header_guard(v.bodies[p]) = header_guard(v.bodies[q])
        PROVE  p = q
    <3>1. CASE p \in 1 .. n /\ q \in 1 .. n
      BY <1>1, <1>5, <2>2, <3>1 DEF Bodies
    <3>2. CASE p = n + 1 \/ q = n + 1
      BY <1>5, <1>8, <1>9, <2>2, <3>2 DEF Guard
    <3> QED
      BY <1>9, <3>1, <3>2
  <2> QED
    BY <2>1, <2>2 DEF Bodies
<1>11. ToCome(v)
  <2>1. ASSUME NEW p \in DOMAIN v.bodies, NEW q \in DOMAIN v.text, v.text[q].kind = "body"
        PROVE  header_guard(v.bodies[p]) # header_guard(v.text[q].name)
    <3>1. q + 1 \in DOMAIN u.text /\ q + 1 # 1 /\ u.text[q + 1] = v.text[q]
      BY <1>3
    <3>2. CASE p \in 1 .. n
      BY <1>1, <1>5, <2>1, <3>1, <3>2 DEF ToCome
    <3>3. CASE p = n + 1
      BY <1>1, <1>5, <1>6, <2>1, <3>1, <3>3 DEF ToCome
    <3> QED
      BY <1>9, <3>2, <3>3
  <2> QED
    BY <1>3, <2>1 DEF ToCome
<1>12. Usual(i, v)
  BY <1>2, <1>3, <1>5 DEF Usual
<1> QED
  BY <1>2, <1>10, <1>11, <1>12 DEF Orderly

(* an #include is passed over, or has no header,                           *)
LEMMA PassingIsOrderly ==
  ASSUME NEW i, NEW u, Orderly(i, u), u.text # <<>>,
         NEW k \in Own(i), NEW v, Passes(i, k, u, v) \/ Misses(i, k, u, v)
  PROVE  Orderly(i, v)
<1>1. /\ Usual(i, u) /\ Bodies(i, u) /\ ToCome(u)
      /\ u.missing # {} => \E d \in Own(i) : ~ Found(i, d)
  BY DEF Orderly
<1>2. /\ v.guards = u.guards /\ v.bodies = u.bodies /\ v.text = Tail(u.text)
      /\ v = Part(v.guards, v.bodies, v.missing, v.text)
  <2>1. CASE Passes(i, k, u, v)
    BY <2>1 DEF Passes, Part
  <2>2. CASE Misses(i, k, u, v)
    BY <2>2 DEF Misses, Part
  <2> QED
    BY <2>1, <2>2
<1>3. v.missing # {} => \E d \in Own(i) : ~ Found(i, d)
  <2>1. CASE Passes(i, k, u, v)
    <3>1. v.missing = u.missing
      BY <2>1 DEF Passes, Part
    <3> QED
      BY <1>1, <3>1
  <2>2. CASE Misses(i, k, u, v)
    <3>1. ~ Found(i, k)
      BY <2>2 DEF Misses
    <3> QED
      BY <3>1
  <2> QED
    BY <2>1, <2>2
<1>4. /\ v.text \in Seq(AllLines(i))
      /\ \A p \in DOMAIN v.text : p + 1 \in DOMAIN u.text /\ v.text[p] = u.text[p + 1]
      /\ \A p \in DOMAIN v.text : v.text[p].kind = "body" =>
           /\ header_guard(v.text[p].name) \in v.guards
           /\ \E j \in Own(i) : Found(i, j) /\ v.text[p] = Said(j)
      /\ \A p, q \in DOMAIN v.text :
           /\ v.text[p].kind = "body" /\ v.text[q].kind = "body"
           /\ header_guard(v.text[p].name) = header_guard(v.text[q].name)
           => p = q
  <2>1. v.guards = u.guards /\ v.text = Tail(u.text)
    BY <1>2
  <2>2. Gone(i, u, v)
    BY <1>1, <2>1, LineIsGone
  <2> QED
    BY <2>2 DEF Gone
<1>5. Usual(i, v)
  <2>1. v.bodies \in Seq(Names)
    BY <1>1, <1>2 DEF Usual
  <2>2. v = Part(v.guards, v.bodies, v.missing, v.text)
    BY <1>2
  <2> QED
    BY <1>4, <2>1, <2>2 DEF Usual
<1>6. Bodies(i, v)
  BY <1>1, <1>2 DEF Bodies
<1>7. ToCome(v)
  <2>1. v.bodies = u.bodies
    BY <1>2
  <2> QED
    BY <1>1, <1>4, <2>1 DEF ToCome
<1> QED
  BY <1>3, <1>5, <1>6, <1>7 DEF Orderly

(* and the text of a header takes the place of an #include.  The header    *)
(* asks for what its body needs, in front of it.                           *)
Entered(i, k, u, v, n) ==
  /\ v.guards = u.guards \cup {Guard(k)} /\ v.bodies = u.bodies
  /\ n \in Nat /\ Len(u.text) \in Nat \ {0} /\ DOMAIN u.text = 1 .. Len(u.text)
  /\ u.text[1] = Asked(i, k)
  /\ DOMAIN v.text = 1 .. n + Len(u.text) /\ Len(v.text) = n + Len(u.text)
  /\ \A p \in 1 .. n : \E d \in Needs(k) : d \in Own(i) /\ v.text[p] = Asked(i, d)
  /\ \A d \in Needs(k) : \E p \in 1 .. n : v.text[p] = Asked(i, d)
  /\ v.text[n + 1] = Said(k)
  /\ \A p \in n + 2 .. n + Len(u.text) :
       p - n \in 2 .. Len(u.text) /\ v.text[p] = u.text[p - n]
  /\ \A p \in 2 .. Len(u.text) :
       p + n \in n + 2 .. n + Len(u.text) /\ v.text[p + n] = u.text[p]

LEMMA HeaderIsEntered ==
  ASSUME Known, NEW i \in DOMAIN request, NEW u, Usual(i, u), u.text # <<>>,
         NEW k \in Own(i), NEW v, Enters(i, k, u, v)
  PROVE  /\ v.guards = u.guards \cup {Guard(k)} /\ v.bodies = u.bodies
         /\ v.missing = u.missing
         /\ v = Part(v.guards, v.bodies, v.missing, v.text)
         /\ v.text \in Seq(AllLines(i))
         /\ \E n \in 0 .. MaxFiles - 1 : Entered(i, k, u, v, n)
<1> DEFINE w == Wanted(k)
           n == Len(w)
           t == u.text
<1>1. /\ v = Part(u.guards \cup {Guard(k)}, u.bodies, u.missing, (w \o <<Said(k)>>) \o Tail(t))
      /\ t[1] = Asked(i, k)
  BY DEF Enters
<1> HIDE DEF w
<1>2. /\ v.guards = u.guards \cup {Guard(k)} /\ v.bodies = u.bodies
      /\ v.missing = u.missing /\ v.text = (w \o <<Said(k)>>) \o Tail(t)
      /\ v = Part(v.guards, v.bodies, v.missing, v.text)
  BY <1>1 DEF Part
<1>3. t \in Seq(AllLines(i)) /\ Said(k) \in AllLines(i)
  BY DEF Usual, AllLines
<1>4. /\ w \in Seq({Asked(i, d) : d \in Imports(i)}) /\ n \in 0 .. MaxFiles - 1
      /\ \A p \in 1 .. n : \E d \in Needs(k) : w[p] = Asked(i, d)
      /\ \A d \in Needs(k) : \E p \in 1 .. n : w[p] = Asked(i, d)
  BY WantedLines DEF w
<1>5. w \in Seq(AllLines(i))
  <2>1. {Asked(i, d) : d \in Imports(i)} \subseteq AllLines(i)
    BY DEF AllLines, Own
  <2> QED
    BY <1>4, <2>1
<1> DEFINE e == (w \o <<Said(k)>>) \o Tail(t)
<1>6. /\ e \in Seq(AllLines(i)) /\ Len(e) = n + Len(t) /\ DOMAIN e = 1 .. n + Len(t)
      /\ Len(t) \in Nat \ {0} /\ n \in Nat
      /\ \A p \in 1 .. n : e[p] = w[p]
      /\ e[n + 1] = Said(k)
      /\ \A p \in n + 2 .. n + Len(t) : e[p] = t[p - n]
  <2>1. Inserted(AllLines(i), w, Said(k), t, e)
    BY <1>3, <1>5, TextWithHeader
  <2> HIDE DEF e
  <2> QED
    BY <2>1 DEF Inserted
<1>7. v.text = e /\ DOMAIN t = 1 .. Len(t)
  BY <1>2, <1>3
<1>8. Needs(k) \subseteq Own(i)
  BY ImportsAreClosed DEF Own
<1> HIDE DEF e, n
<1>9. /\ \A p \in 1 .. n : \E d \in Needs(k) : d \in Own(i) /\ e[p] = Asked(i, d)
      /\ \A d \in Needs(k) : \E p \in 1 .. n : e[p] = Asked(i, d)
  BY <1>4, <1>6, <1>8
<1>10. ASSUME NEW p \in n + 2 .. n + Len(t)
       PROVE  p - n \in 2 .. Len(t) /\ e[p] = t[p - n]
  BY <1>6
<1>11. ASSUME NEW p \in 2 .. Len(t)
       PROVE  p + n \in n + 2 .. n + Len(t) /\ e[p + n] = t[p]
  <2>1. p + n \in n + 2 .. n + Len(t) /\ (p + n) - n = p
    BY <1>6
  <2> QED
    BY <1>6, <2>1
<1>12. Entered(i, k, u, v, n)
  <2>1. v.guards = u.guards \cup {Guard(k)} /\ v.bodies = u.bodies
    BY <1>2
  <2> QED
    BY <1>1, <1>6, <1>7, <1>9, <1>10, <1>11, <2>1 DEF Entered
<1> QED
  BY <1>2, <1>4, <1>6, <1>7, <1>12

LEMMA EnteringIsOrderly ==
  ASSUME Known, NEW i \in DOMAIN request, NEW u, Orderly(i, u), u.text # <<>>,
         NEW k \in Own(i), NEW v, Enters(i, k, u, v)
  PROVE  Orderly(i, v)
<1> DEFINE t == u.text
           m == Len(t)
<1>1. Usual(i, u) /\ Bodies(i, u) /\ ToCome(u)
  BY DEF Orderly
<1>2. /\ v.guards = u.guards \cup {Guard(k)} /\ v.bodies = u.bodies
      /\ v.missing = u.missing
      /\ v = Part(v.guards, v.bodies, v.missing, v.text)
      /\ v.text \in Seq(AllLines(i))
  BY <1>1, HeaderIsEntered
<1>3. PICK n \in 0 .. MaxFiles - 1 : Entered(i, k, u, v, n)
  BY <1>1, HeaderIsEntered
<1>4. /\ n \in Nat /\ m \in Nat \ {0} /\ DOMAIN t = 1 .. m
      /\ DOMAIN v.text = 1 .. n + m
      /\ \A p \in 1 .. n : \E d \in Needs(k) : d \in Own(i) /\ v.text[p] = Asked(i, d)
      /\ v.text[n + 1] = Said(k)
      /\ \A p \in n + 2 .. n + m : p - n \in 2 .. m /\ v.text[p] = t[p - n]
  BY <1>3 DEF Entered
<1>5. Guard(k) \notin u.guards /\ Found(i, k)
  BY DEF Enters
<1>6. Said(k).kind = "body" /\ header_guard(Said(k).name) = Guard(k)
  BY DEF Said, Line, Guard
<1>7. ASSUME NEW p \in DOMAIN v.text, v.text[p].kind = "body"
      PROVE  \/ p = n + 1
             \/ p \in n + 2 .. n + m /\ p - n \in DOMAIN t /\ v.text[p] = t[p - n]
  <2>1. p \notin 1 .. n
    <3> SUFFICES ASSUME p \in 1 .. n
                 PROVE  FALSE
      OBVIOUS
    <3>1. PICK d \in Needs(k) : v.text[p] = Asked(i, d)
      BY <1>4
    <3> QED
      BY <1>7, <3>1 DEF Asked, Line
  <2>2. p = n + 1 \/ p \in n + 2 .. n + m
    BY <1>4, <2>1
  <2>3. ASSUME p \in n + 2 .. n + m
        PROVE  p - n \in DOMAIN t /\ v.text[p] = t[p - n]
    <3>1. p - n \in 2 .. m /\ v.text[p] = t[p - n]
      BY <1>4, <2>3
    <3>2. 2 .. m \subseteq 1 .. m
      BY <1>4
    <3> QED
      BY <1>4, <3>1, <3>2
  <2> QED
    BY <2>2, <2>3
<1> HIDE DEF t, m
<1>8. ASSUME NEW p \in DOMAIN t, t[p].kind = "body"
      PROVE  /\ header_guard(t[p].name) \in u.guards
             /\ \E j \in Own(i) : Found(i, j) /\ t[p] = Said(j)
  BY <1>1, <1>8 DEF Usual, t
<1>9. Usual(i, v)
  <2>1. v.bodies \in Seq(Names)
    BY <1>1, <1>2 DEF Usual
  <2>2. ASSUME NEW p \in DOMAIN v.text, v.text[p].kind = "body"
        PROVE  /\ header_guard(v.text[p].name) \in v.guards
               /\ \E j \in Own(i) : Found(i, j) /\ v.text[p] = Said(j)
    <3>1. CASE p = n + 1
      BY <1>2, <1>4, <1>5, <1>6, <3>1
    <3>2. CASE p \in n + 2 .. n + m /\ p - n \in DOMAIN t /\ v.text[p] = t[p - n]
      BY <1>2, <1>8, <2>2, <3>2
    <3> QED
      BY <1>7, <2>2, <3>1, <3>2
  <2>3. /\ v.text \in Seq(AllLines(i))
        /\ v = Part(v.guards, v.bodies, v.missing, v.text)
    BY <1>2
  <2> QED
    BY <2>1, <2>2, <2>3 DEF Usual
<1>10. Bodies(i, v)
  BY <1>1, <1>2 DEF Bodies
<1>11. ToCome(v)
  <2>1. ASSUME NEW p \in DOMAIN v.text, NEW q \in DOMAIN v.text,
               v.text[p].kind = "body", v.text[q].kind = "body",
               header_guard(v.text[p].name) = header_guard(v.text[q].name)
        PROVE  p = q
    <3>1. CASE p = n + 1 /\ q # n + 1
      <4>1. q - n \in DOMAIN t /\ v.text[q] = t[q - n]
        BY <1>7, <2>1, <3>1
      <4>2. header_guard(v.text[q].name) \in u.guards
        BY <1>8, <2>1, <4>1
      <4>3. header_guard(v.text[p].name) = Guard(k)
        BY <1>4, <1>6, <3>1
      <4> QED
        BY <1>5, <2>1, <4>2, <4>3
    <3>2. CASE p # n + 1 /\ q = n + 1
      <4>1. p - n \in DOMAIN t /\ v.text[p] = t[p - n]
        BY <1>7, <2>1, <3>2
      <4>2. header_guard(v.text[p].name) \in u.guards
        BY <1>8, <2>1, <4>1
      <4>3. header_guard(v.text[q].name) = Guard(k)
        BY <1>4, <1>6, <3>2
      <4> QED
        BY <1>5, <2>1, <4>2, <4>3
    <3>3. CASE p # n + 1 /\ q # n + 1
      <4>1. /\ p - n \in DOMAIN t /\ v.text[p] = t[p - n]
            /\ q - n \in DOMAIN t /\ v.text[q] = t[q - n]
        BY <1>7, <2>1, <3>3
      <4>2. p - n = q - n
        BY <1>1, <2>1, <4>1 DEF ToCome, t
      <4>3. p \in Int /\ q \in Int /\ n \in Int
        BY <1>2, <1>4
      <4> QED
        BY <4>2, <4>3
    <3> QED
      BY <3>1, <3>2, <3>3
  <2>2. ASSUME NEW p \in DOMAIN v.bodies, NEW q \in DOMAIN v.text, v.text[q].kind = "body"
        PROVE  header_guard(v.bodies[p]) # header_guard(v.text[q].name)
    <3>1. p \in DOMAIN u.bodies /\ v.bodies[p] = u.bodies[p]
      BY <1>2, <2>2
    <3>2. CASE q = n + 1
      <4>1. header_guard(u.bodies[p]) \in u.guards
        BY <1>1, <3>1 DEF Bodies
      <4> QED
        BY <1>4, <1>5, <1>6, <3>1, <3>2, <4>1
    <3>3. CASE q # n + 1
      <4>1. q - n \in DOMAIN t /\ v.text[q] = t[q - n]
        BY <1>7, <2>2, <3>3
      <4> QED
        BY <1>1, <2>2, <3>1, <4>1 DEF ToCome, t
    <3> QED
      BY <3>2, <3>3
  <2> QED
    BY <2>1, <2>2 DEF ToCome
<1>12. v.missing # {} => \E d \in Own(i) : ~ Found(i, d)
  BY <1>2 DEF Orderly
<1> QED
  BY <1>9, <1>10, <1>11, <1>12 DEF Orderly

LEMMA LinesAreOrderly ==
  ASSUME PlainNames, Known, NEW i \in DOMAIN request, NEW u, Orderly(i, u), u.text # <<>>
  PROVE  Orderly(i, Preprocess(u))
<1>1. PICK k \in Own(i) :
        \/ Takes(i, k, u, Preprocess(u)) \/ Misses(i, k, u, Preprocess(u))
        \/ Passes(i, k, u, Preprocess(u)) \/ Enters(i, k, u, Preprocess(u))
  BY LineIsRead DEF Orderly
<1> DEFINE v == Preprocess(u)
<1> HIDE DEF v
<1>2. Takes(i, k, u, v) \/ Misses(i, k, u, v) \/ Passes(i, k, u, v) \/ Enters(i, k, u, v)
  BY <1>1 DEF v
<1>3. Orderly(i, v)
  BY <1>2, TakingIsOrderly, PassingIsOrderly, EnteringIsOrderly
<1> QED
  BY <1>3 DEF v

(***************************************************************************)
(* What is true besides when all headers are found and their guards        *)
(* differ.                                                                 *)
(***************************************************************************)

Sound(i) ==
  /\ \A k \in Own(i) : Found(i, k)
  /\ \A j, k \in Own(i) : Guard(j) = Guard(k) => j = k

LEMMA LinesDiffer ==
  ASSUME PlainNames, Known, NEW i \in DOMAIN request, Sound(i),
         NEW j \in Own(i), NEW k \in Own(i)
  PROVE  /\ Asked(i, j) = Asked(i, k) => j = k
         /\ Said(j) = Said(k) => j = k
         /\ Asked(i, j) # Said(k)
         /\ Asked(i, j).kind # "body" /\ Said(j).kind = "body"
<1>1. j \in DOMAIN request /\ k \in DOMAIN request
  BY ImportsAreClosed
<1>2. Name(j) = Name(k) => j = k
  BY <1>1, FilesAreTyped
<1>3. HeadersOf(Asked(i, j).name) = {request[j]} /\ HeadersOf(Asked(i, k).name) = {request[k]}
  BY HeadersAreFound DEF Sound
<1>4. Asked(i, j) = Asked(i, k) => j = k
  BY <1>2, <1>3 DEF Name
<1>5. Said(j) = Said(k) => j = k
  BY <1>2 DEF Said, Line
<1>6. Asked(i, j).kind # "body" /\ Said(j).kind = "body" /\ Said(k).kind = "body"
  BY DEF Asked, Said, Line
<1>7. Asked(i, j) # Said(k)
  BY <1>6
<1> QED
  BY <1>4, <1>5, <1>6, <1>7

(* The unit has the body of k behind those that k imports.                 *)
Complete(k, bodies) ==
  \E p \in DOMAIN bodies :
    /\ bodies[p] = Name(k)
    /\ \A d \in Needs(k) : \E q \in 1 .. p - 1 : bodies[q] = Name(d)

(* The body of d is there, or comes before the place p of the text.        *)
Before(i, d, p, u) ==
  \/ \E q \in DOMAIN u.bodies : u.bodies[q] = Name(d)
  \/ \E q \in 1 .. p - 1 : u.text[q] = Asked(i, d) \/ u.text[q] = Said(d)

Soon(i, k, u) ==
  \E p \in DOMAIN u.text :
    /\ u.text[p] = Said(k)
    /\ \A d \in Needs(k) : Before(i, d, p, u)

(* In front of a body that is to come is nothing that the file is imported *)
(* by.                                                                     *)
Descends(i, u) ==
  \A j, k \in Own(i) : \A p, q \in DOMAIN u.text :
    /\ p < q
    /\ u.text[q] = Said(k)
    /\ u.text[p] = Asked(i, j) \/ u.text[p] = Said(j)
    => j < k

(* A guard is defined when the body has been seen or is to come.           *)
Defined(i, u) ==
  \A k \in Own(i) : Guard(k) \in u.guards => Complete(k, u.bodies) \/ Soon(i, k, u)

(* The header of i itself is the first that the source includes.           *)
Rooted(i, u) == Guard(i) \in u.guards \/ \E p \in DOMAIN u.text : u.text[p] = Asked(i, i)

Ahead(i, u) == Descends(i, u) /\ Defined(i, u) /\ Rooted(i, u)

(* A line that is gone.                                                    *)
LEMMA DescendsWithoutLine ==
  ASSUME NEW i \in DOMAIN request, Known, NEW u, NEW v, Gone(i, u, v), Descends(i, u)
  PROVE  Descends(i, v)
<1> SUFFICES ASSUME NEW j \in Own(i), NEW k \in Own(i),
                    NEW p \in DOMAIN v.text, NEW q \in DOMAIN v.text, p < q,
                    v.text[q] = Said(k), v.text[p] = Asked(i, j) \/ v.text[p] = Said(j)
             PROVE  j < k
  BY DEF Descends
<1>1. /\ p + 1 \in DOMAIN u.text /\ v.text[p] = u.text[p + 1]
      /\ q + 1 \in DOMAIN u.text /\ v.text[q] = u.text[q + 1]
  BY DEF Gone
<1>2. p + 1 < q + 1
  BY DEF Gone
<1> QED
  BY <1>1, <1>2 DEF Descends

(* What is behind the first line stays where it was, but for one place.    *)
LEMMA StillBefore ==
  ASSUME NEW i, NEW u, NEW v, Gone(i, u, v), NEW d, NEW p \in DOMAIN u.text, p # 1,
         Before(i, d, p, u), u.text[1] # Asked(i, d), u.text[1] # Said(d),
         \A q \in DOMAIN u.bodies : q \in DOMAIN v.bodies /\ v.bodies[q] = u.bodies[q]
  PROVE  Before(i, d, p - 1, v)
<1>1. CASE \E q \in DOMAIN u.bodies : u.bodies[q] = Name(d)
  BY <1>1 DEF Before
<1>2. CASE \E q \in 1 .. p - 1 : u.text[q] = Asked(i, d) \/ u.text[q] = Said(d)
  <2>1. PICK q \in 1 .. p - 1 : u.text[q] = Asked(i, d) \/ u.text[q] = Said(d)
    BY <1>2
  <2>2. q # 1
    BY <2>1
  <2>3. q - 1 \in 1 .. (p - 1) - 1 /\ q - 1 \in DOMAIN v.text /\ (q - 1) + 1 = q
    BY <2>2 DEF Gone
  <2>4. v.text[q - 1] = u.text[q]
    BY <2>3 DEF Gone
  <2> QED
    BY <2>1, <2>3, <2>4 DEF Before
<1> QED
  BY <1>1, <1>2 DEF Before

LEMMA StillComplete ==
  ASSUME NEW k, NEW b, NEW c, Complete(k, b), NEW n \in Nat, DOMAIN b = 1 .. n,
         \A q \in DOMAIN b : q \in DOMAIN c /\ c[q] = b[q]
  PROVE  Complete(k, c)
<1>1. PICK p \in DOMAIN b :
        /\ b[p] = Name(k)
        /\ \A d \in Needs(k) : \E q \in 1 .. p - 1 : b[q] = Name(d)
  BY DEF Complete
<1>2. \A q \in 1 .. p - 1 : q \in DOMAIN b
  OBVIOUS
<1>3. \A d \in Needs(k) : \E q \in 1 .. p - 1 : c[q] = Name(d)
  BY <1>1, <1>2
<1> QED
  BY <1>1, <1>3 DEF Complete

LEMMA SoonAfterLine ==
  ASSUME PlainNames, Known, NEW i \in DOMAIN request, Sound(i),
         NEW u, NEW v, Gone(i, u, v), NEW k \in Own(i),
         u.text[1] = Asked(i, k) \/ u.text[1] = Said(k),
         \E q \in DOMAIN v.bodies : v.bodies[q] = Name(k),
         \A q \in DOMAIN u.bodies : q \in DOMAIN v.bodies /\ v.bodies[q] = u.bodies[q],
         NEW m \in Own(i), NEW p \in DOMAIN u.text, p # 1, u.text[p] = Said(m),
         \A d \in Needs(m) : Before(i, d, p, u)
  PROVE  Soon(i, m, v)
<1>1. p - 1 \in DOMAIN v.text /\ v.text[p - 1] = Said(m)
  <2>1. p - 1 \in DOMAIN v.text /\ (p - 1) + 1 = p
    BY DEF Gone
  <2> QED
    BY <2>1 DEF Gone
<1>2. ASSUME NEW d \in Needs(m)
      PROVE  Before(i, d, p - 1, v)
  <2>1. d \in Own(i)
    BY ImportsAreClosed DEF Own
  <2>2. CASE d = k
    BY <2>2 DEF Before
  <2>3. CASE d # k
    <3>1. u.text[1] # Asked(i, d) /\ u.text[1] # Said(d)
      <4>1. Asked(i, k) # Asked(i, d) /\ Said(k) # Said(d)
        BY <2>1, <2>3, LinesDiffer
      <4>2. Asked(i, k) # Said(d) /\ Asked(i, d) # Said(k)
        BY <2>1, LinesDiffer
      <4> QED
        BY <4>1, <4>2
    <3> QED
      BY <1>2, <3>1, StillBefore
  <2> QED
    BY <2>2, <2>3
<1> QED
  BY <1>1, <1>2 DEF Soon

LEMMA RootedAfterLine ==
  ASSUME NEW i, NEW u, NEW v, Gone(i, u, v), Rooted(i, u), v.guards = u.guards,
         u.text[1] = Asked(i, i) => Guard(i) \in u.guards
  PROVE  Rooted(i, v)
<1>1. CASE Guard(i) \in u.guards
  BY <1>1 DEF Rooted
<1>2. CASE Guard(i) \notin u.guards
  <2>1. PICK p \in DOMAIN u.text : u.text[p] = Asked(i, i)
    BY <1>2 DEF Rooted
  <2>2. p # 1
    BY <1>2, <2>1
  <2>3. p - 1 \in DOMAIN v.text /\ (p - 1) + 1 = p
    BY <2>2 DEF Gone
  <2>4. v.text[p - 1] = u.text[p]
    BY <2>3 DEF Gone
  <2> QED
    BY <2>1, <2>3, <2>4 DEF Rooted
<1> QED
  BY <1>1, <1>2

(* A header that is passed over has been read to its end: its body is not  *)
(* to come, as it would be behind an #include of its own.                  *)
LEMMA PassingIsAhead ==
  ASSUME PlainNames, Known, NEW i \in DOMAIN request, Sound(i),
         NEW u, Orderly(i, u), Ahead(i, u), u.text # <<>>,
         NEW k \in Own(i), NEW v, Passes(i, k, u, v)
  PROVE  Ahead(i, v)
<1>1. Descends(i, u) /\ Defined(i, u) /\ Rooted(i, u) /\ Usual(i, u) /\ ToCome(u)
  BY DEF Ahead, Orderly
<1>2. /\ v.guards = u.guards /\ v.bodies = u.bodies /\ v.text = Tail(u.text)
      /\ u.text[1] = Asked(i, k) /\ Guard(k) \in u.guards
  BY DEF Passes, Part
<1>3. Gone(i, u, v)
  BY <1>1, <1>2, LineIsGone
<1>4. \A q \in DOMAIN u.bodies : q \in DOMAIN v.bodies /\ v.bodies[q] = u.bodies[q]
  BY <1>2
<1>5. 1 \in DOMAIN u.text
  BY <1>3 DEF Gone
<1>6. \E q \in DOMAIN v.bodies : v.bodies[q] = Name(k)
  <2>1. CASE Complete(k, u.bodies)
    BY <1>2, <2>1 DEF Complete
  <2>2. CASE Soon(i, k, u)
    <3>1. PICK p \in DOMAIN u.text : u.text[p] = Said(k)
      BY <2>2 DEF Soon
    <3>2. p # 1
      BY <1>2, <3>1, LinesDiffer
    <3>3. 1 < p
      BY <1>3, <3>2 DEF Gone
    <3>4. k < k
      BY <1>1, <1>2, <1>5, <3>1, <3>3 DEF Descends
    <3>5. k \in Nat
      BY ImportsAreClosed, FilesAreTyped
    <3> QED
      BY <3>4, <3>5
  <2> QED
    BY <1>1, <1>2, <2>1, <2>2 DEF Defined
<1>7. Descends(i, v)
  BY <1>1, <1>3, DescendsWithoutLine
<1>8. Defined(i, v)
  <2> SUFFICES ASSUME NEW m \in Own(i), Guard(m) \in v.guards
               PROVE  Complete(m, v.bodies) \/ Soon(i, m, v)
    BY DEF Defined
  <2>1. CASE Complete(m, u.bodies)
    BY <1>2, <2>1
  <2>2. CASE Soon(i, m, u)
    <3>1. PICK p \in DOMAIN u.text :
            u.text[p] = Said(m) /\ \A d \in Needs(m) : Before(i, d, p, u)
      BY <2>2 DEF Soon
    <3>2. p # 1
      BY <1>2, <3>1, LinesDiffer
    <3> QED
      BY <1>2, <1>3, <1>4, <1>6, <3>1, <3>2, SoonAfterLine
  <2> QED
    BY <1>1, <1>2, <2>1, <2>2 DEF Defined
<1>9. Rooted(i, v)
  <2>1. i \in Own(i)
    BY DEF Own
  <2>2. u.text[1] = Asked(i, i) => Guard(i) \in u.guards
    BY <1>2, <2>1, LinesDiffer
  <2> QED
    BY <1>1, <1>2, <1>3, <2>2, RootedAfterLine
<1> QED
  BY <1>7, <1>8, <1>9 DEF Ahead

(* A body that is taken is complete: nothing that it imports can be to     *)
(* come, with no line before it.                                           *)
LEMMA TakingIsAhead ==
  ASSUME PlainNames, Known, NEW i \in DOMAIN request, Sound(i),
         NEW u, Orderly(i, u), Ahead(i, u), u.text # <<>>,
         NEW k \in Own(i), NEW v, Takes(i, k, u, v)
  PROVE  Ahead(i, v)
<1> DEFINE n == Len(u.bodies)
<1>1. Descends(i, u) /\ Defined(i, u) /\ Rooted(i, u) /\ Usual(i, u) /\ ToCome(u)
  BY DEF Ahead, Orderly
<1>2. /\ v.guards = u.guards /\ v.bodies = Append(u.bodies, Name(k)) /\ v.text = Tail(u.text)
      /\ u.text[1] = Said(k)
  BY DEF Takes, Part
<1>3. Gone(i, u, v)
  BY <1>1, <1>2, LineIsGone
<1>4. /\ n \in Nat /\ DOMAIN u.bodies = 1 .. n /\ DOMAIN v.bodies = 1 .. n + 1
      /\ \A q \in 1 .. n : v.bodies[q] = u.bodies[q]
      /\ v.bodies[n + 1] = Name(k)
  <2>1. u.bodies \in Seq(Names) /\ Name(k) \in Names
    BY <1>1, ImportsAreClosed, FilesAreTyped DEF Usual
  <2> QED
    BY <1>2, <2>1
<1> HIDE DEF n
<1>5. \A q \in DOMAIN u.bodies : q \in DOMAIN v.bodies /\ v.bodies[q] = u.bodies[q]
  BY <1>4
<1>6. \E q \in DOMAIN v.bodies : v.bodies[q] = Name(k)
  BY <1>4
<1>7. Descends(i, v)
  BY <1>1, <1>3, DescendsWithoutLine
<1>8. Defined(i, v)
  <2> SUFFICES ASSUME NEW m \in Own(i), Guard(m) \in v.guards
               PROVE  Complete(m, v.bodies) \/ Soon(i, m, v)
    BY DEF Defined
  <2>1. CASE Complete(m, u.bodies)
    BY <1>4, <1>5, <2>1, StillComplete
  <2>2. CASE Soon(i, m, u)
    <3>1. PICK p \in DOMAIN u.text :
            u.text[p] = Said(m) /\ \A d \in Needs(m) : Before(i, d, p, u)
      BY <2>2 DEF Soon
    <3>2. CASE p = 1
      <4>1. m = k
        BY <1>2, <3>1, <3>2, LinesDiffer
      <4>2. ASSUME NEW d \in Needs(k)
            PROVE  \E q \in 1 .. n : u.bodies[q] = Name(d)
        <5>1. Before(i, d, 1, u)
          BY <3>1, <3>2, <4>1, <4>2
        <5> QED
          BY <1>4, <5>1 DEF Before
      <4>3. \A d \in Needs(k) : \E q \in 1 .. (n + 1) - 1 : v.bodies[q] = Name(d)
        BY <1>4, <4>2
      <4> QED
        BY <1>4, <4>1, <4>3 DEF Complete
    <3>3. CASE p # 1
      BY <1>2, <1>3, <1>5, <1>6, <3>1, <3>3, SoonAfterLine
    <3> QED
      BY <3>2, <3>3
  <2> QED
    BY <1>1, <1>2, <2>1, <2>2 DEF Defined
<1>9. Rooted(i, v)
  <2>1. i \in Own(i)
    BY DEF Own
  <2>2. u.text[1] # Asked(i, i)
    BY <1>2, <2>1, LinesDiffer
  <2> QED
    BY <1>1, <1>2, <1>3, <2>2, RootedAfterLine
<1> QED
  BY <1>7, <1>8, <1>9 DEF Ahead

LEMMA DescendsWithHeader ==
  ASSUME PlainNames, Known, NEW i \in DOMAIN request, Sound(i),
         NEW u, NEW k \in Own(i), NEW v, NEW n, Entered(i, k, u, v, n), Descends(i, u)
  PROVE  Descends(i, v)
<1> SUFFICES ASSUME NEW j \in Own(i), NEW m \in Own(i),
                    NEW p \in DOMAIN v.text, NEW q \in DOMAIN v.text, p < q,
                    v.text[q] = Said(m), v.text[p] = Asked(i, j) \/ v.text[p] = Said(j)
             PROVE  j < m
  BY DEF Descends
<1> DEFINE t == u.text
           z == Len(u.text)
<1>1. /\ n \in Nat /\ z \in Nat \ {0} /\ DOMAIN t = 1 .. z
      /\ t[1] = Asked(i, k)
      /\ DOMAIN v.text = 1 .. n + z
      /\ \A l \in 1 .. n : \E d \in Needs(k) : d \in Own(i) /\ v.text[l] = Asked(i, d)
      /\ v.text[n + 1] = Said(k)
      /\ \A l \in n + 2 .. n + z : l - n \in 2 .. z /\ v.text[l] = t[l - n]
  BY DEF Entered
<1> HIDE DEF t, z
<1>2. j \in Nat /\ k \in Nat /\ m \in Nat /\ Needs(k) \subseteq 1 .. k - 1
  BY ImportsAreClosed, FilesAreTyped
<1>3. \A l \in DOMAIN v.text : l \in 1 .. n \/ l = n + 1 \/ l \in n + 2 .. n + z
  BY <1>1
<1>4. q = n + 1 => m = k
  BY <1>1, LinesDiffer
<1>5. q \notin 1 .. n
  <2> SUFFICES ASSUME q \in 1 .. n
               PROVE  FALSE
    OBVIOUS
  <2>1. PICK d \in Needs(k) : d \in Own(i) /\ v.text[q] = Asked(i, d)
    BY <1>1
  <2> QED
    BY <2>1, LinesDiffer
<1>6. ASSUME q \in n + 2 .. n + z
      PROVE  k < m
  <2>1. q - n \in 2 .. z /\ t[q - n] = Said(m)
    BY <1>1, <1>6
  <2>2. 1 \in DOMAIN t /\ q - n \in DOMAIN t /\ 1 < q - n
    BY <1>1, <2>1
  <2> QED
    BY <1>1, <2>1, <2>2 DEF Descends, t
<1>7. k <= m
  BY <1>2, <1>3, <1>4, <1>5, <1>6
<1>8. CASE p \in 1 .. n
  <2>1. PICK d \in Needs(k) : d \in Own(i) /\ v.text[p] = Asked(i, d)
    BY <1>1, <1>8
  <2>2. d = j
    <3>1. Asked(i, d) # Said(j)
      BY <2>1, LinesDiffer
    <3>2. Asked(i, d) = Asked(i, j)
      BY <2>1, <3>1
    <3> QED
      BY <2>1, <3>2, LinesDiffer
  <2>3. j < k
    BY <1>2, <2>1, <2>2
  <2> QED
    BY <1>2, <1>7, <2>3
<1>9. CASE p = n + 1
  <2>1. j = k
    <3>1. Asked(i, j) # Said(k)
      BY LinesDiffer
    <3> QED
      BY <1>1, <1>9, <3>1, LinesDiffer
  <2>2. q \in n + 2 .. n + z
    BY <1>1, <1>3, <1>9
  <2> QED
    BY <1>6, <2>1, <2>2
<1>10. CASE p \in n + 2 .. n + z
  <2>1. q \in n + 2 .. n + z
    BY <1>1, <1>3, <1>10
  <2>2. /\ p - n \in 2 .. z /\ v.text[p] = t[p - n]
        /\ q - n \in 2 .. z /\ v.text[q] = t[q - n]
    BY <1>1, <1>10, <2>1
  <2>3. p - n \in DOMAIN t /\ q - n \in DOMAIN t /\ p - n < q - n
    BY <1>1, <2>2
  <2> QED
    BY <2>2, <2>3 DEF Descends, t
<1> QED
  BY <1>3, <1>8, <1>9, <1>10

LEMMA SoonWithHeader ==
  ASSUME PlainNames, Known, NEW i \in DOMAIN request, Sound(i),
         NEW u, NEW k \in Own(i), NEW v, NEW n, Entered(i, k, u, v, n),
         NEW m \in Own(i), Soon(i, m, u)
  PROVE  Soon(i, m, v)
<1> DEFINE t == u.text
           z == Len(u.text)
<1>1. /\ n \in Nat /\ z \in Nat \ {0} /\ DOMAIN t = 1 .. z
      /\ t[1] = Asked(i, k) /\ v.bodies = u.bodies
      /\ DOMAIN v.text = 1 .. n + z
      /\ v.text[n + 1] = Said(k)
      /\ \A l \in 2 .. z : l + n \in n + 2 .. n + z /\ v.text[l + n] = t[l]
  BY DEF Entered
<1>2. PICK p \in DOMAIN t : t[p] = Said(m) /\ \A d \in Needs(m) : Before(i, d, p, u)
  BY DEF Soon
<1>3. p # 1
  BY <1>1, <1>2, LinesDiffer
<1> HIDE DEF z
<1>4. p \in 2 .. z
  BY <1>1, <1>3
<1>5. ASSUME NEW d \in Needs(m)
      PROVE  Before(i, d, p + n, v)
  <2>1. Before(i, d, p, u) /\ d \in Own(i)
    BY <1>2, ImportsAreClosed DEF Own
  <2>2. CASE \E q \in DOMAIN u.bodies : u.bodies[q] = Name(d)
    BY <1>1, <2>2 DEF Before
  <2>3. CASE \E q \in 1 .. p - 1 : t[q] = Asked(i, d) \/ t[q] = Said(d)
    <3>1. PICK q \in 1 .. p - 1 : t[q] = Asked(i, d) \/ t[q] = Said(d)
      BY <2>3
    <3> HIDE DEF t
    <3>2. CASE q = 1
      <4>1. Asked(i, k) # Said(d)
        BY <2>1, LinesDiffer
      <4>2. Asked(i, k) = Asked(i, d)
        BY <1>1, <3>1, <3>2, <4>1
      <4>3. d = k
        BY <2>1, <4>2, LinesDiffer
      <4>4. n + 1 \in 1 .. (p + n) - 1
        BY <1>1, <1>4
      <4> QED
        BY <1>1, <4>3, <4>4 DEF Before
    <3>3. CASE q # 1
      <4>1. q \in 2 .. z /\ q + n \in 1 .. (p + n) - 1
        BY <1>1, <1>4, <3>3
      <4>2. v.text[q + n] = t[q]
        BY <1>1, <4>1
      <4> QED
        BY <3>1, <4>1, <4>2 DEF Before
    <3> QED
      BY <3>2, <3>3
  <2> QED
    BY <2>1, <2>2, <2>3 DEF Before, t
<1>6. p + n \in DOMAIN v.text /\ v.text[p + n] = Said(m)
  <2>1. p + n \in n + 2 .. n + z /\ v.text[p + n] = t[p]
    BY <1>1, <1>4
  <2>2. n + 2 .. n + z \subseteq 1 .. n + z
    BY <1>1
  <2> QED
    BY <1>1, <1>2, <2>1, <2>2
<1> QED
  BY <1>5, <1>6 DEF Soon

LEMMA EnteringIsAhead ==
  ASSUME PlainNames, Known, NEW i \in DOMAIN request, Sound(i),
         NEW u, Orderly(i, u), Ahead(i, u), u.text # <<>>,
         NEW k \in Own(i), NEW v, Enters(i, k, u, v)
  PROVE  Ahead(i, v)
<1>1. Descends(i, u) /\ Defined(i, u) /\ Rooted(i, u) /\ Usual(i, u)
  BY DEF Ahead, Orderly
<1>2. PICK n \in 0 .. MaxFiles - 1 : Entered(i, k, u, v, n)
  BY <1>1, HeaderIsEntered
<1>3. Descends(i, v)
  BY <1>1, <1>2, DescendsWithHeader
<1>4. Defined(i, v)
  <2> SUFFICES ASSUME NEW m \in Own(i), Guard(m) \in v.guards
               PROVE  Complete(m, v.bodies) \/ Soon(i, m, v)
    BY DEF Defined
  <2>1. v.guards = u.guards \cup {Guard(k)} /\ v.bodies = u.bodies
    BY <1>2 DEF Entered
  <2>2. CASE Guard(m) = Guard(k)
    <3>1. m = k
      BY <2>2 DEF Sound
    <3>2. ASSUME NEW d \in Needs(k)
          PROVE  Before(i, d, n + 1, v)
      <4>1. PICK p \in 1 .. n : v.text[p] = Asked(i, d)
        BY <1>2, <3>2 DEF Entered
      <4>2. p \in 1 .. (n + 1) - 1
        BY <1>2, <4>1 DEF Entered
      <4> QED
        BY <4>1, <4>2 DEF Before
    <3>3. n + 1 \in DOMAIN v.text /\ v.text[n + 1] = Said(k)
      BY <1>2 DEF Entered
    <3> QED
      BY <3>1, <3>2, <3>3 DEF Soon
  <2>3. CASE Guard(m) # Guard(k)
    <3>1. Complete(m, u.bodies) \/ Soon(i, m, u)
      BY <1>1, <2>1, <2>3 DEF Defined
    <3> QED
      BY <1>2, <2>1, <3>1, SoonWithHeader
  <2> QED
    BY <2>2, <2>3
<1>5. Rooted(i, v)
  <2>1. /\ v.guards = u.guards \cup {Guard(k)} /\ u.text[1] = Asked(i, k)
        /\ DOMAIN u.text = 1 .. Len(u.text) /\ Len(u.text) \in Nat /\ n \in Nat
        /\ DOMAIN v.text = 1 .. n + Len(u.text)
        /\ \A p \in 2 .. Len(u.text) : v.text[p + n] = u.text[p]
    BY <1>2 DEF Entered
  <2>2. CASE Guard(i) \in u.guards
    BY <2>1, <2>2 DEF Rooted
  <2>3. CASE \E p \in DOMAIN u.text : u.text[p] = Asked(i, i)
    <3>1. PICK p \in DOMAIN u.text : u.text[p] = Asked(i, i)
      BY <2>3
    <3>2. CASE p = 1
      <4>1. i = k
        BY <2>1, <3>1, <3>2, LinesDiffer DEF Own
      <4> QED
        BY <2>1, <4>1 DEF Rooted
    <3>3. CASE p # 1
      <4>1. p \in 2 .. Len(u.text) /\ p + n \in 1 .. n + Len(u.text)
        BY <2>1, <3>3
      <4> QED
        BY <2>1, <3>1, <4>1 DEF Rooted
    <3> QED
      BY <3>2, <3>3
  <2> QED
    BY <1>1, <2>2, <2>3 DEF Rooted
<1> QED
  BY <1>3, <1>4, <1>5 DEF Ahead

LEMMA LinesAreAhead ==
  ASSUME PlainNames, Known, NEW i \in DOMAIN request, Sound(i),
         NEW u, Orderly(i, u), Ahead(i, u), u.text # <<>>
  PROVE  Ahead(i, Preprocess(u))
<1>1. PICK k \in Own(i) :
        \/ Takes(i, k, u, Preprocess(u)) \/ Misses(i, k, u, Preprocess(u))
        \/ Passes(i, k, u, Preprocess(u)) \/ Enters(i, k, u, Preprocess(u))
  BY LineIsRead DEF Orderly
<1> DEFINE v == Preprocess(u)
<1> HIDE DEF v
<1>2. Takes(i, k, u, v) \/ Misses(i, k, u, v) \/ Passes(i, k, u, v) \/ Enters(i, k, u, v)
  BY <1>1 DEF v
<1>3. ~ Misses(i, k, u, v)
  BY DEF Misses, Sound
<1>4. Ahead(i, v)
  BY <1>2, <1>3, TakingIsAhead, PassingIsAhead, EnteringIsAhead
<1> QED
  BY <1>4 DEF v

(***************************************************************************)
(* The text comes to an end.                                               *)
(***************************************************************************)

AllGuards == {Guard(k) : k \in DOMAIN request}

(* Each line takes one; a header that is entered puts fewer lines in its   *)
(* place than its guard is worth.                                          *)
Weight(unit) == Len(unit.text) + (MaxFiles + 1) * Cardinality(AllGuards \ unit.guards)

LEMMA GuardsAreFinite ==
  ASSUME Known
  PROVE  /\ IsFiniteSet(AllGuards)
         /\ Cardinality(AllGuards) \in 0 .. Len(request)
<1> DEFINE n == Len(request)
           f == [k \in 1 .. n |-> Guard(k)]
<1>1. n \in Nat /\ DOMAIN request = 1 .. n
  BY DEF Known
<1>2. IsFiniteSet(1 .. n) /\ Cardinality(1 .. n) = n
  <2> HIDE DEF n
  <2>1. n \in Nat /\ n \in Int /\ 1 \in Int
    BY <1>1
  <2>2. IsFiniteSet(1 .. n) /\ Cardinality(1 .. n) = IF 1 > n THEN 0 ELSE n - 1 + 1
    BY <2>1, FS_Interval
  <2> QED
    BY <2>1, <2>2
<1>3. f \in Surjection(1 .. n, AllGuards)
  <2>1. \A k \in 1 .. n : f[k] \in AllGuards
    BY <1>1 DEF AllGuards
  <2>2. \A g \in AllGuards : \E k \in 1 .. n : f[k] = g
    BY <1>1 DEF AllGuards
  <2>3. f \in [1 .. n -> AllGuards]
    BY <2>1
  <2> QED
    BY <2>2, <2>3 DEF Surjection
<1> HIDE DEF f, n
<1>4. IsFiniteSet(AllGuards) /\ Cardinality(AllGuards) <= n
  BY <1>2, <1>3, FS_Surjection
<1>5. Cardinality(AllGuards) \in Nat
  BY <1>4, FS_CardinalityType
<1> QED
  BY <1>1, <1>4, <1>5 DEF n

LEMMA GuardsLeft ==
  ASSUME Known, NEW guards
  PROVE  /\ Cardinality(AllGuards \ guards) \in 0 .. Len(request)
         /\ Len(request) \in Nat
         /\ \A g \in AllGuards : g \notin guards =>
              Cardinality(AllGuards \ (guards \cup {g})) = Cardinality(AllGuards \ guards) - 1
<1> DEFINE S == AllGuards \ guards
<1>1. Len(request) \in Nat /\ IsFiniteSet(AllGuards) /\ Cardinality(AllGuards) \in 0 .. Len(request)
  BY GuardsAreFinite DEF Known
<1>2. S \in SUBSET AllGuards
  OBVIOUS
<1> HIDE DEF S
<1>3. IsFiniteSet(S) /\ Cardinality(S) <= Cardinality(AllGuards) /\ Cardinality(S) \in Nat
  BY <1>1, <1>2, FS_Subset, FS_CardinalityType
<1>4. ASSUME NEW g \in AllGuards, g \notin guards
      PROVE  Cardinality(AllGuards \ (guards \cup {g})) = Cardinality(S) - 1
  <2>1. AllGuards \ (guards \cup {g}) = S \ {g} /\ g \in S
    BY <1>4 DEF S
  <2> QED
    BY <1>3, <2>1, FS_RemoveElement
<1>5. Cardinality(S) \in 0 .. Len(request)
  BY <1>1, <1>3
<1> QED
  BY <1>1, <1>4, <1>5 DEF S

LEMMA LinesGetFewer ==
  ASSUME PlainNames, Known, NEW i \in DOMAIN request, NEW u, Orderly(i, u), u.text # <<>>
  PROVE  Weight(u) \in Nat /\ Weight(Preprocess(u)) \in Nat /\ Weight(Preprocess(u)) < Weight(u)
<1>1. PICK k \in Own(i) :
        \/ Takes(i, k, u, Preprocess(u)) \/ Misses(i, k, u, Preprocess(u))
        \/ Passes(i, k, u, Preprocess(u)) \/ Enters(i, k, u, Preprocess(u))
  BY LineIsRead DEF Orderly
<1> DEFINE v == Preprocess(u)
           c == Cardinality(AllGuards \ u.guards)
           l == Len(u.text)
<1> HIDE DEF v
<1>2. c \in Nat /\ MaxFiles \in Nat
  BY GuardsLeft, MaxFilesAssumption
<1>3. Usual(i, u) /\ ToCome(u)
  BY DEF Orderly
<1>4. CASE Takes(i, k, u, v) \/ Misses(i, k, u, v) \/ Passes(i, k, u, v)
  <2>1. v.guards = u.guards /\ v.text = Tail(u.text)
    <3>1. CASE Takes(i, k, u, v)
      BY <3>1 DEF Takes, Part
    <3>2. CASE Misses(i, k, u, v)
      BY <3>2 DEF Misses, Part
    <3>3. CASE Passes(i, k, u, v)
      BY <3>3 DEF Passes, Part
    <3> QED
      BY <1>4, <3>1, <3>2, <3>3
  <2>2. Gone(i, u, v)
    BY <1>3, <2>1, LineIsGone
  <2>3. l \in Nat \ {0} /\ Len(v.text) = l - 1
    BY <2>2 DEF Gone
  <2>4. Weight(u) = l + (MaxFiles + 1) * c /\ Weight(v) = (l - 1) + (MaxFiles + 1) * c
    BY <2>1, <2>3 DEF Weight
  <2>5. (MaxFiles + 1) * c \in Nat
    BY <1>2
  <2> HIDE DEF l, c
  <2>6. Weight(u) \in Nat /\ Weight(v) \in Nat /\ Weight(v) < Weight(u)
    BY <2>3, <2>4, <2>5
  <2> QED
    BY <2>6 DEF v
<1>5. CASE Enters(i, k, u, v)
  <2>1. v.guards = u.guards \cup {Guard(k)}
    BY <1>3, <1>5, HeaderIsEntered
  <2>2. PICK n \in 0 .. MaxFiles - 1 : Entered(i, k, u, v, n)
    BY <1>3, <1>5, HeaderIsEntered
  <2>3. l \in Nat \ {0} /\ Len(v.text) = n + l
    BY <2>2 DEF Entered
  <2>4. Guard(k) \in AllGuards /\ Guard(k) \notin u.guards
    BY <1>5, ImportsAreClosed DEF Enters, AllGuards
  <2>5. Cardinality(AllGuards \ v.guards) = c - 1 /\ Cardinality(AllGuards \ v.guards) \in Nat
    BY <2>1, <2>4, GuardsLeft
  <2>6. Weight(u) = l + (MaxFiles + 1) * c /\ Weight(v) = (n + l) + (MaxFiles + 1) * (c - 1)
    BY <2>3, <2>5 DEF Weight
  <2> HIDE DEF l, c
  <2>7. (MaxFiles + 1) * (c - 1) = (MaxFiles + 1) * c - (MaxFiles + 1)
    BY <1>2
  <2>8. (MaxFiles + 1) * (c - 1) \in Nat /\ (MaxFiles + 1) * c \in Nat
    BY <1>2, <2>5
  <2> DEFINE x == (MaxFiles + 1) * c
             y == (MaxFiles + 1) * (c - 1)
  <2>9. x \in Nat /\ y \in Nat /\ y = x - (MaxFiles + 1) /\ Weight(u) = l + x /\ Weight(v) = (n + l) + y
    BY <2>6, <2>7, <2>8
  <2> HIDE DEF x, y
  <2>10. Weight(u) \in Nat /\ Weight(v) \in Nat /\ Weight(v) < Weight(u)
    BY <1>2, <2>3, <2>9
  <2> QED
    BY <2>10 DEF v
<1> QED
  BY <1>1, <1>4, <1>5 DEF v

(***************************************************************************)
(* The preprocessor, line after line.                                      *)
(***************************************************************************)

LEMMA SetsClimb ==
  ASSUME NEW T, 0 \in T, \A k \in Nat : k \in T => k + 1 \in T
  PROVE  Nat \subseteq T
<1> DEFINE S == Nat \ T
<1> SUFFICES ASSUME S # {}
             PROVE  FALSE
  OBVIOUS
<1>1. PICK n \in S : \A m \in S : n <= m
  BY SetsHaveLeast
<1>2. n - 1 \in Nat /\ n - 1 \notin S
  BY <1>1
<1>3. (n - 1) + 1 \in T
  BY <1>2
<1> QED
  BY <1>1, <1>3

Runs(first, n, g) ==
  g = [m \in 0 .. n |-> IF m = 0 THEN first ELSE Preprocess(g[m - 1])]

LEMMA RunsExist ==
  ASSUME NEW first, NEW n \in Nat
  PROVE  \E g : Runs(first, n, g)
<1> DEFINE T == {k \in Nat : \E g : Runs(first, k, g)}
<1>1. 0 \in T
  <2> DEFINE g == [m \in 0 .. 0 |-> first]
  <2>1. \A m \in 0 .. 0 : m = 0
    OBVIOUS
  <2>2. Runs(first, 0, g)
    BY <2>1 DEF Runs
  <2> QED
    BY <2>2
<1>2. ASSUME NEW k \in Nat, k \in T
      PROVE  k + 1 \in T
  <2>1. PICK g : Runs(first, k, g)
    BY <1>2
  <2> DEFINE h == [m \in 0 .. k + 1 |-> IF m = k + 1 THEN Preprocess(g[k]) ELSE g[m]]
             next(m) == IF m = 0 THEN first ELSE Preprocess(h[m - 1])
  <2>2. \A m \in 0 .. k : g[m] = IF m = 0 THEN first ELSE Preprocess(g[m - 1])
    BY <2>1 DEF Runs
  <2>3. /\ \A m \in 0 .. k : h[m] = g[m]
        /\ h[k + 1] = Preprocess(g[k])
        /\ h = [m \in 0 .. k + 1 |-> h[m]]
    OBVIOUS
  <2> HIDE DEF h
  <2>4. ASSUME NEW m \in 0 .. k + 1
        PROVE  h[m] = next(m)
    <3>1. CASE m = k + 1
      <4>1. m # 0 /\ m - 1 = k /\ k \in 0 .. k
        BY <3>1
      <4>2. h[m] = Preprocess(g[k]) /\ h[m - 1] = g[k]
        BY <2>3, <3>1, <4>1
      <4> QED
        BY <4>1, <4>2
    <3>2. CASE m = 0
      <4>1. 0 \in 0 .. k
        OBVIOUS
      <4>2. g[0] = first
        BY <2>2, <4>1
      <4>3. h[0] = first
        BY <2>3, <4>1, <4>2
      <4> QED
        BY <3>2, <4>3
    <3>3. CASE m # k + 1 /\ m # 0
      <4>1. m \in 0 .. k /\ m - 1 \in 0 .. k
        BY <3>3
      <4> QED
        BY <2>2, <2>3, <3>3, <4>1
    <3> QED
      BY <3>1, <3>2, <3>3
  <2>5. h = [m \in 0 .. k + 1 |-> next(m)]
    BY <2>3, <2>4
  <2>6. Runs(first, k + 1, h)
    BY <2>5 DEF Runs
  <2> QED
    BY <2>6
<1> HIDE DEF T
<1>3. n \in T
  BY <1>1, <1>2, SetsClimb
<1> QED
  BY <1>3 DEF T

(* Started well, the preprocessor ends well.                               *)
LEMMA RunsEndWell ==
  ASSUME PlainNames, Known, NEW i \in DOMAIN request,
         NEW first, Orderly(i, first), Sound(i) => Ahead(i, first),
         NEW n \in Nat, Weight(first) <= n, NEW g, Runs(first, n, g)
  PROVE  Orderly(i, g[n]) /\ (Sound(i) => Ahead(i, g[n])) /\ g[n].text = <<>>
<1> DEFINE Well(m) ==
             /\ Orderly(i, g[m]) /\ (Sound(i) => Ahead(i, g[m]))
             /\ g[m].text = <<>> \/ Weight(g[m]) + m <= n
           T == {m \in Nat : m <= n => Well(m)}
<1>1. \A m \in 0 .. n : g[m] = IF m = 0 THEN first ELSE Preprocess(g[m - 1])
  BY DEF Runs
<1>2. Weight(first) \in Nat \/ first.text = <<>>
  BY LinesGetFewer
<1>3. 0 \in T
  <2>1. g[0] = first
    BY <1>1
  <2>2. Well(0)
    BY <1>2, <2>1
  <2> QED
    BY <2>2
<1>4. ASSUME NEW m \in Nat, m \in T
      PROVE  m + 1 \in T
  <2> SUFFICES ASSUME m + 1 <= n
               PROVE  Well(m + 1)
    OBVIOUS
  <2> DEFINE u == g[m]
  <2>1. Orderly(i, u) /\ (Sound(i) => Ahead(i, u)) /\ (u.text = <<>> \/ Weight(u) + m <= n)
    BY <1>4
  <2>2. g[m + 1] = Preprocess(u)
    <3>1. m + 1 \in 0 .. n /\ m + 1 # 0 /\ (m + 1) - 1 = m
      OBVIOUS
    <3> QED
      BY <1>1, <3>1
  <2> HIDE DEF u
  <2>3. CASE u.text = <<>>
    <3>1. Preprocess(u) = u
      BY <2>3 DEF Preprocess
    <3> QED
      BY <2>1, <2>2, <2>3, <3>1
  <2>4. CASE u.text # <<>>
    <3>1. Orderly(i, Preprocess(u)) /\ (Sound(i) => Ahead(i, Preprocess(u)))
      BY <2>1, <2>4, LinesAreOrderly, LinesAreAhead
    <3>2. /\ Weight(u) \in Nat /\ Weight(Preprocess(u)) \in Nat
          /\ Weight(Preprocess(u)) < Weight(u)
      BY <2>1, <2>4, LinesGetFewer
    <3>3. Weight(Preprocess(u)) + (m + 1) <= n
      BY <2>1, <2>4, <3>2
    <3> QED
      BY <2>2, <3>1, <3>3
  <2> QED
    BY <2>3, <2>4
<1> HIDE DEF Well
<1>5. Well(n)
  <2> HIDE DEF T
  <2>1. n \in T
    BY <1>3, <1>4, SetsClimb
  <2> QED
    BY <2>1 DEF T
<1>6. Orderly(i, g[n]) /\ (Sound(i) => Ahead(i, g[n])) /\ (g[n].text = <<>> \/ Weight(g[n]) + n <= n)
  BY <1>5 DEF Well
<1>7. g[n].text = <<>>
  <2> SUFFICES ASSUME g[n].text # <<>>
               PROVE  FALSE
    OBVIOUS
  <2>1. /\ Weight(g[n]) \in Nat /\ Weight(Preprocess(g[n])) \in Nat
        /\ Weight(Preprocess(g[n])) < Weight(g[n])
    BY <1>6, LinesGetFewer
  <2> QED
    BY <1>6, <2>1
<1> QED
  BY <1>6, <1>7

(***************************************************************************)
(* The source of file i.                                                   *)
(***************************************************************************)

First(i) == Part({}, <<>>, {}, Lines(generate_source(request, request[i]).includes))

LEMMA SourceLines ==
  ASSUME Known, NEW i \in DOMAIN request
  PROVE  /\ First(i).text \in Seq({Asked(i, k) : k \in Own(i)})
         /\ DOMAIN First(i).text = 1 .. Len(First(i).text)
         /\ Len(First(i).text) \in 1 .. MaxFiles
         /\ First(i).text[1] = Asked(i, i)
<1> DEFINE dep == request[i].dependency
           n   == Len(dep)
           inc == includes(request, request[i])
           own == HeaderName(Name(i))
           s   == <<own>> \o inc
           S   == {Asked(i, k) : k \in Own(i)}
           t   == Lines(s)
           X   == {own} \cup {inc[k] : k \in 1 .. n}
<1>1. First(i).text = t
  BY DEF First, Part, generate_source, Name
<1>2. DOMAIN dep = 1 .. n /\ n \in 0 .. MaxFiles - 1 /\ n \in Nat
  BY FilesAreTyped, MaxFilesAssumption
<1>3. i \in Own(i)
  BY DEF Own
<1>4. /\ Wanted(i) \in Seq({Asked(i, d) : d \in Imports(i)})
  BY <1>3, WantedLines
<1>5. inc = [k \in 1 .. n |-> inc[k]]
  <2> HIDE DEF n
  <2> QED
    BY <1>2 DEF includes
<1>6. inc \in Seq(X) /\ Len(inc) = n /\ own \in X
  <2> HIDE DEF n, inc, own
  <2> QED
    BY <1>2, <1>5
<1>7. Wanted(i) = [k \in 1 .. n |-> Line("include", inc[k])]
  <2> HIDE DEF n, inc
  <2>1. DOMAIN inc = 1 .. n
    BY <1>5
  <2> QED
    BY <2>1 DEF Wanted, Lines, inc
<1> HIDE DEF X, inc, own, n
<1>8. /\ s \in Seq(X) /\ Len(s) = n + 1 /\ s[1] = own
      /\ \A k \in 2 .. n + 1 : s[k] = inc[k - 1]
  BY <1>2, <1>6
<1>9. t = [k \in 1 .. n + 1 |-> Line("include", s[k])]
  <2> HIDE DEF s
  <2> QED
    BY <1>8 DEF Lines
<1>10. t[1] = Asked(i, i)
  <2>1. t[1] = Line("include", own)
    <3> HIDE DEF s, t
    <3> QED
      BY <1>2, <1>8, <1>9
  <2> QED
    BY <2>1 DEF Asked, own
<1> HIDE DEF s, t
<1>11. \A k \in 2 .. n + 1 : t[k] \in S
  <2> TAKE k \in 2 .. n + 1
  <2>1. k - 1 \in 1 .. n /\ k \in 1 .. n + 1
    BY <1>2
  <2>2. t[k] = Wanted(i)[k - 1]
    BY <1>7, <1>8, <1>9, <2>1
  <2>3. Wanted(i)[k - 1] \in {Asked(i, d) : d \in Imports(i)}
    <3> DEFINE Z == {Asked(i, d) : d \in Imports(i)}
               w == Wanted(i)
    <3>1. w \in Seq(Z)
      BY <1>4
    <3>2. w = [l \in 1 .. n |-> Line("include", inc[l])]
      BY <1>7
    <3> HIDE DEF w, Z
    <3>3. DOMAIN w = 1 .. n
      BY <3>2
    <3>4. \A l \in DOMAIN w : w[l] \in Z
      BY <3>1
    <3>5. w[k - 1] \in Z
      BY <2>1, <3>3, <3>4
    <3> QED
      BY <3>5 DEF w, Z
  <2> QED
    BY <2>2, <2>3 DEF Own
<1>12. t \in [1 .. n + 1 -> S]
  <2>1. \A k \in 1 .. n + 1 : t[k] \in S
    BY <1>2, <1>3, <1>10, <1>11
  <2> QED
    BY <1>9, <2>1
<1> HIDE DEF S
<1>13. t \in Seq(S) /\ Len(t) = n + 1 /\ DOMAIN t = 1 .. Len(t) /\ Len(t) \in 1 .. MaxFiles
  <2>1. n + 1 \in Nat
    BY <1>2
  <2>2. t \in Seq(S) /\ Len(t) = n + 1 /\ DOMAIN t = 1 .. Len(t)
    BY <1>12, <2>1
  <2> QED
    BY <1>2, <2>2, MaxFilesAssumption
<1> QED
  BY <1>1, <1>10, <1>13 DEF S

LEMMA SourceIsOrderly ==
  ASSUME Known, NEW i \in DOMAIN request
  PROVE  Orderly(i, First(i)) /\ Ahead(i, First(i)) /\ Weight(First(i)) <= Steps /\ Steps \in Nat
<1> DEFINE u == First(i)
<1>1. /\ u.guards = {} /\ u.bodies = <<>> /\ u.missing = {}
      /\ u = Part(u.guards, u.bodies, u.missing, u.text)
  BY DEF First, Part
<1>2. /\ u.text \in Seq({Asked(i, k) : k \in Own(i)})
      /\ DOMAIN u.text = 1 .. Len(u.text)
      /\ Len(u.text) \in 1 .. MaxFiles
      /\ u.text[1] = Asked(i, i)
  BY SourceLines
<1> HIDE DEF u
<1>3. ASSUME NEW p \in DOMAIN u.text
      PROVE  u.text[p].kind # "body" /\ \A k \in Own(i) : u.text[p] # Said(k)
  <2>1. PICK k \in Own(i) : u.text[p] = Asked(i, k)
    BY <1>2
  <2> QED
    BY <2>1 DEF Asked, Said, Line
<1>4. u.text \in Seq(AllLines(i))
  <2>1. {Asked(i, k) : k \in Own(i)} \subseteq AllLines(i)
    BY DEF AllLines
  <2> QED
    BY <1>2, <2>1
<1>5. Usual(i, u)
  BY <1>1, <1>3, <1>4 DEF Usual
<1>6. Bodies(i, u) /\ ToCome(u)
  BY <1>1, <1>3 DEF Bodies, ToCome
<1>7. Orderly(i, u)
  BY <1>1, <1>5, <1>6 DEF Orderly
<1>8. Ahead(i, u)
  <2>1. Descends(i, u)
    BY <1>3 DEF Descends
  <2>2. Defined(i, u)
    BY <1>1 DEF Defined
  <2>3. Rooted(i, u)
    BY <1>2 DEF Rooted
  <2> QED
    BY <2>1, <2>2, <2>3 DEF Ahead
<1>9. Weight(u) <= Steps /\ Steps \in Nat
  <2> DEFINE c == Cardinality(AllGuards \ u.guards)
             l == Len(u.text)
             r == Len(request)
  <2>1. c \in 0 .. r /\ r \in Nat
    BY GuardsLeft
  <2>2. l \in 1 .. MaxFiles /\ MaxFiles \in Nat
    BY <1>2, MaxFilesAssumption
  <2>3. Weight(u) = l + (MaxFiles + 1) * c /\ Steps = MaxFiles + r * (MaxFiles + 1)
    BY DEF Weight, Steps
  <2> HIDE DEF c, l, r
  <2>4. (MaxFiles + 1) * c <= r * (MaxFiles + 1)
    BY <2>1, <2>2
  <2>5. (MaxFiles + 1) * c \in Nat /\ r * (MaxFiles + 1) \in Nat
    BY <2>1, <2>2
  <2> QED
    BY <2>2, <2>3, <2>4, <2>5
<1> QED
  BY <1>7, <1>8, <1>9 DEF u

LEMMA SourceEndsWell ==
  ASSUME PlainNames, Known, NEW i \in DOMAIN request
  PROVE  LET unit == Unit(generate_source(request, request[i]))
         IN  Orderly(i, unit) /\ (Sound(i) => Ahead(i, unit)) /\ unit.text = <<>>
<1>1. /\ Orderly(i, First(i)) /\ Ahead(i, First(i)) /\ Weight(First(i)) <= Steps
      /\ Steps \in Nat
  BY SourceIsOrderly
<1> DEFINE first == First(i)
           unit == Unit(generate_source(request, request[i]))
           f == CHOOSE g : Runs(first, Steps, g)
<1>2. Runs(first, Steps, f)
  BY <1>1, RunsExist
<1>3. unit = f[Steps]
  BY DEF Unit, Runs, First
<1> HIDE DEF first, f
<1>4. Orderly(i, f[Steps]) /\ (Sound(i) => Ahead(i, f[Steps])) /\ f[Steps].text = <<>>
  BY <1>1, <1>2, RunsEndWell DEF first
<1> QED
  BY <1>3, <1>4

(* All bodies are there if the text has been read to its end.              *)
LEMMA AllAreThere ==
  ASSUME Known, NEW i \in DOMAIN request, NEW u, Orderly(i, u), Ahead(i, u), u.text = <<>>
  PROVE  \A k \in Own(i) : Complete(k, u.bodies)
<1> DEFINE there == {k \in Own(i) : \E p \in DOMAIN u.bodies : u.bodies[p] = Name(k)}
<1>1. /\ \A k \in Own(i) : Guard(k) \in u.guards => Complete(k, u.bodies)
      /\ Guard(i) \in u.guards
  <2>1. \A k : ~ Soon(i, k, u)
    BY DEF Soon
  <2>2. Guard(i) \in u.guards
    BY DEF Ahead, Rooted
  <2> QED
    BY <2>1, <2>2 DEF Ahead, Defined
<1>2. \A k \in there : Complete(k, u.bodies)
  <2> TAKE k \in there
  <2>1. Guard(k) \in u.guards
    BY DEF Orderly, Bodies, Guard
  <2> QED
    BY <1>1, <2>1
<1>3. i \in there
  <2>1. i \in Own(i)
    BY DEF Own
  <2> QED
    BY <1>1, <2>1 DEF Complete
<1>4. u.bodies \in Seq(Names)
  BY DEF Orderly, Usual
<1>5. ASSUME NEW k \in there, NEW d \in Needs(k)
      PROVE  d \in there
  <2>1. PICK p \in DOMAIN u.bodies : \E q \in 1 .. p - 1 : u.bodies[q] = Name(d)
    BY <1>2, <1>5 DEF Complete
  <2>2. \A q \in 1 .. p - 1 : q \in DOMAIN u.bodies
    BY <1>4
  <2>3. d \in Own(i)
    BY <1>5, ImportsAreClosed DEF Own
  <2> QED
    BY <2>1, <2>2, <2>3
<1>6. Imports(i) \subseteq there
  <2>1. there \in SUBSET DOMAIN request /\ there \cup {i} = there
    BY <1>3, ImportsAreClosed
  <2>2. \A k \in there \cup {i} : Needs(k) \subseteq there
    BY <1>5, <2>1
  <2> QED
    BY <2>1, <2>2, ImportsAreClosed
<1> QED
  BY <1>2, <1>3, <1>6 DEF Own

LEMMA UnitIsSound ==
  ASSUME PlainNames, Known, NEW i \in DOMAIN request,
         NEW u, Orderly(i, u), Sound(i) => Ahead(i, u), u.text = <<>>
  PROVE  /\ IsInjective(u.bodies)
         /\ Has(u, Own(i)) <=> Sound(i)
         /\ u.missing # {} => \E d \in Own(i) : ~ Found(i, d)
<1>1. Bodies(i, u) /\ (u.missing # {} => \E d \in Own(i) : ~ Found(i, d))
  BY DEF Orderly
<1>2. IsInjective(u.bodies)
  BY <1>1 DEF Bodies, IsInjective
<1>3. ASSUME Sound(i)
      PROVE  Has(u, Own(i))
  <2>1. \A k \in Own(i) : Complete(k, u.bodies)
    BY <1>3, AllAreThere
  <2> QED
    BY <2>1 DEF Complete, Has, Name, Needs
<1>4. ASSUME Has(u, Own(i))
      PROVE  Sound(i)
  <2>1. \A k \in Own(i) : \E p \in DOMAIN u.bodies : u.bodies[p] = Name(k)
    BY <1>4 DEF Has, Name
  <2>2. \A j, k \in Own(i) : Name(j) = Name(k) => j = k
    BY ImportsAreClosed, FilesAreTyped
  <2>3. ASSUME NEW k \in Own(i)
        PROVE  Found(i, k)
    <3>1. PICK p \in DOMAIN u.bodies : u.bodies[p] = Name(k)
      BY <2>1
    <3>2. PICK j \in Own(i) : Found(i, j) /\ u.bodies[p] = Name(j)
      BY <1>1 DEF Bodies
    <3> QED
      BY <2>2, <3>1, <3>2
  <2>4. ASSUME NEW j \in Own(i), NEW k \in Own(i), Guard(j) = Guard(k)
        PROVE  j = k
    <3>1. PICK p \in DOMAIN u.bodies : u.bodies[p] = Name(j)
      BY <2>1
    <3>2. PICK q \in DOMAIN u.bodies : u.bodies[q] = Name(k)
      BY <2>1
    <3>3. p = q
      BY <1>1, <2>4, <3>1, <3>2 DEF Bodies, Guard
    <3> QED
      BY <2>2, <3>1, <3>2, <3>3
  <2> QED
    BY <2>3, <2>4 DEF Sound
<1> QED
  BY <1>1, <1>2, <1>3, <1>4

(* The source of each file compiled is read to its end, and has the bodies *)
(* of its own file and of all that it imports, once each and behind those  *)
(* that they need, exactly if the guards differ, the names of imports are  *)
(* replaced alike, and no import declares messages.                        *)
THEOREM SourcesSeeWhatTheyImport ==
  ASSUME PlainNames
  PROVE  Spec => []SourcesSeeImports
<1>1. IndInv => SourcesSeeImports
  <2> SUFFICES ASSUME IndInv, status = 0, NEW i \in DOMAIN request, request[i].wanted
               PROVE  LET unit == Unit(generate_source(request, request[i]))
                          own  == Imports(i) \cup {i}
                      IN  /\ unit.text = <<>>
                          /\ IsInjective(unit.bodies)
                          /\ Has(unit, own) <=>
                               /\ \A j, k \in own :
                                    header_guard(request[j].name) = header_guard(request[k].name)
                                    => j = k
                               /\ \A d \in Imports(i) : IsThere(request[d])
                          /\ unit.missing # {} => \E d \in Imports(i) : ~ IsThere(request[d])
    BY DEF SourcesSeeImports
  <2>1. Known /\ ~ HeaderRaises(request[i])
    <3>1. step = "exited" /\ ~error
      BY NullAssumption DEF IndInv, TypeOK, OutcomeInv
    <3>2. Known /\ i \in 1 .. Len(request) /\ Len(request) \in Nat
      BY <3>1 DEF IndInv, TypeOK, FilesInv, Known
    <3>3. request # Unreadable /\ at > Len(request) /\ at \in Nat
      BY <3>1 DEF IndInv, TypeOK, PassedInv
    <3>4. i < at
      BY <3>2, <3>3
    <3> QED
      BY <3>2, <3>3, <3>4 DEF IndInv, PassedInv
  <2> DEFINE unit == Unit(generate_source(request, request[i]))
  <2>2. Orderly(i, unit) /\ (Sound(i) => Ahead(i, unit)) /\ unit.text = <<>>
    BY <2>1, SourceEndsWell
  <2> HIDE DEF unit
  <2>3. /\ IsInjective(unit.bodies)
        /\ Has(unit, Own(i)) <=> Sound(i)
        /\ unit.missing # {} => \E d \in Own(i) : ~ Found(i, d)
    BY <2>1, <2>2, UnitIsSound
  <2>4. \A d \in Imports(i) : Found(i, d) <=> IsThere(request[d])
    <3>1. i \notin Imports(i)
      <4>1. i \in Nat /\ Imports(i) \subseteq 1 .. i - 1
        BY <2>1, ImportsAreClosed, FilesAreTyped
      <4> QED
        BY <4>1
    <3> QED
      BY <3>1 DEF Found, IsThere, HeaderRaises, Name
  <2>5. Found(i, i)
    BY <2>1 DEF Found
  <2>6. Sound(i) <=> /\ \A j, k \in Own(i) : Guard(j) = Guard(k) => j = k
                     /\ \A d \in Imports(i) : IsThere(request[d])
    BY <2>4, <2>5 DEF Sound, Own
  <2>7. unit.missing # {} => \E d \in Imports(i) : ~ IsThere(request[d])
    BY <2>3, <2>4, <2>5 DEF Own
  <2> QED
    BY <2>2, <2>3, <2>6, <2>7 DEF Own, Guard, Name, unit
<1> QED
  BY <1>1, PluginInvariant, PTL

=============================================================================
