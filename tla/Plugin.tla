------------------------------- MODULE Plugin -------------------------------
(***************************************************************************)
(* The driver of the protoc plugin, compiler/plugin.py, over the files of  *)
(* one request.  Writing to standard output may fail: protoc may be gone.  *)
(* A write that fails delivers nothing.                                    *)
(***************************************************************************)
EXTENDS CppGenerator

CONSTANTS
  NULL,
  Unreadable   (* input that is empty or not a CodeGeneratorRequest        *)

ASSUME NullAssumption == NULL \notin {0, 1, 120}

VARIABLES
  request,   (* the files, or Unreadable                                   *)
  at,        (* the file the loop is at                                    *)
  step,      (* "read", "loop", "header", "source", "failed", "write",     *)
             (* "fatal" or "exited"                                        *)
  files,     (* response.file: names, and contents, NULL until they are set*)
  error,     (* is response.error set?                                     *)
  output,    (* the responses that protoc gets                             *)
  status     (* the exit status, NULL while the program runs               *)

vars == <<request, at, step, files, error, output, status>>

Init ==
  /\ request = Unreadable \/ \E n \in 0 .. MaxFiles : request \in Requests(n)
  /\ at = 1
  /\ step = "read"
  /\ files = <<>>
  /\ error = FALSE
  /\ output = <<>>
  /\ status = NULL

Goto(s) == step' = s

(* The handler at the end of main() starts over with a fresh response.     *)
Fatal ==
  /\ Goto("fatal")
  /\ files' = <<>>
  /\ error' = TRUE
  /\ UNCHANGED <<request, at, output, status>>

(* No input, or input that is not a request.                               *)
ReadBad ==
  /\ step = "read"
  /\ request = Unreadable
  /\ Fatal

ReadRequest ==
  /\ step = "read"
  /\ request # Unreadable
  /\ Goto("loop")
  /\ UNCHANGED <<request, at, files, error, output, status>>

(***************************************************************************)
(* The loop.                                                               *)
(***************************************************************************)

Looping == step = "loop" /\ at <= Len(request)

SkipFile ==
  /\ Looping
  /\ ~request[at].wanted
  /\ at' = at + 1
  /\ UNCHANGED <<request, step, files, error, output, status>>

AddHeader ==
  /\ Looping
  /\ request[at].wanted
  /\ files' = Append(files, [name |-> HeaderName(request[at].name), content |-> NULL])
  /\ Goto("header")
  /\ UNCHANGED <<request, at, error, output, status>>

GenerateHeader ==
  /\ step = "header"
  /\ ~HeaderRaises(request[at])
  /\ files' = [files EXCEPT ![Len(files)].content = generate_header(request, request[at])]
  /\ Goto("source")
  /\ UNCHANGED <<request, at, error, output, status>>

(* A file that is past its header has no messages, so that its source does *)
(* not fail either.                                                        *)
GenerateSource ==
  /\ step = "source"
  /\ files' = Append(files, [name |-> SourceName(request[at].name),
                             content |-> generate_source(request, request[at])])
  /\ at' = at + 1
  /\ Goto("loop")
  /\ UNCHANGED <<request, error, output, status>>

(* The handler of one file: the error joins what the response has so far.  *)
FileFails ==
  /\ step = "header"
  /\ HeaderRaises(request[at])
  /\ error' = TRUE
  /\ Goto("failed")
  /\ UNCHANGED <<request, at, files, output, status>>

LoopEnds ==
  /\ step = "loop"
  /\ at > Len(request)
  /\ Goto("write")
  /\ UNCHANGED <<request, at, files, error, output, status>>

(***************************************************************************)
(* Writing the response.                                                   *)
(***************************************************************************)

Respond == output' = Append(output, [files |-> files, error |-> error])

Exit(code) ==
  /\ Goto("exited")
  /\ status' = code
  /\ UNCHANGED <<request, at, files, error>>

(* Mutant: after the error of a file the loop goes on.                     *)
WriteErrorGoesOn ==
  /\ step = "failed"
  /\ Respond
  /\ at' = at + 1
  /\ Goto("loop")
  /\ UNCHANGED <<request, files, error, status>>

(* sys.exit() leaves main(): SystemExit is not an Exception.               *)
WriteError == step = "failed" /\ Respond /\ Exit(1)

(* Mutant: the handler at the end does not set the exit status.            *)
WriteFatalSucceeds == step = "fatal" /\ Respond /\ Exit(0)

WriteFatal == step = "fatal" /\ Respond /\ Exit(1)

WriteResponse == step = "write" /\ Respond /\ Exit(0)

(* A write that fails is caught by the handler at the end of main(), ...   *)
WriteRaises == step \in {"failed", "write"} /\ Fatal

(* ... and in that handler by nobody, which is an exit status of 1, too.   *)
WriteRaisesAgain == step = "fatal" /\ Exit(1) /\ UNCHANGED output

(* A short response waits in the buffer of standard output for the end of  *)
(* the program.  If that cannot write it, Python exits with 120.           *)
FlushFails == step \in {"failed", "write", "fatal"} /\ Exit(120) /\ UNCHANGED output

Exited == step = "exited" /\ UNCHANGED vars

Next ==
  \/ ReadBad \/ ReadRequest
  \/ SkipFile \/ AddHeader \/ GenerateHeader \/ GenerateSource \/ FileFails \/ LoopEnds
  \/ WriteError \/ WriteFatal \/ WriteResponse \/ WriteRaises \/ WriteRaisesAgain
  \/ FlushFails
  \/ Exited

Spec == Init /\ [][Next]_vars

(***************************************************************************)
(* Properties.                                                             *)
(***************************************************************************)

(* The entries of a file.                                                  *)
Header(file) == [name |-> HeaderName(file.name), content |-> generate_header(request, file)]
Source(file) == [name |-> SourceName(file.name), content |-> generate_source(request, file)]
NoContent(file) == [name |-> HeaderName(file.name), content |-> NULL]

(* How many of the files up to n are wanted.                               *)
WantedUpTo(n) == Cardinality({i \in 1 .. n : request[i].wanted})

(* Each wanted file up to n has its two entries where the wanted files     *)
(* before it leave off, so that there is no gap.                           *)
Begins(got, n) ==
  \A i \in 1 .. n : request[i].wanted =>
    /\ got[2 * WantedUpTo(i) - 1] = Header(request[i])
    /\ got[2 * WantedUpTo(i)] = Source(request[i])

(* The files up to n are generated, and nothing else.                      *)
Generated(got, n) == Len(got) = 2 * WantedUpTo(n) /\ Begins(got, n)

(* So are the files before the one the loop is at, which has this header.  *)
Interrupted(got, header) ==
  /\ at \in DOMAIN request /\ request[at].wanted
  /\ Len(got) = 2 * WantedUpTo(at - 1) + 1
  /\ Begins(got, at - 1)
  /\ got[Len(got)] = header

(* protoc gets at most one response, whatever fails, and the exit status   *)
(* is 0 exactly if it got one without an error.                            *)
StatusTellsError ==
  /\ Len(output) <= 1
  /\ status # NULL => (status = 0 <=> output # <<>> /\ ~output[1].error)

(* A response without an error has both files of each wanted file and      *)
(* nothing else.  One with an error has those of the files before the one  *)
(* that failed, and of this one a header without content, or, if the       *)
(* program failed as a whole, has nothing.                                 *)
ResponseIsWhole ==
  \A i \in DOMAIN output :
    LET got == output[i].files
    IN  IF ~output[i].error THEN Generated(got, Len(request))
        ELSE got = <<>> \/ Interrupted(got, NoContent(request[at]))

(* "Generates: my_message.pb.h, my_message.pb.cc", says the README of a    *)
(* call for a file with a message; the plugin fails on every such file.    *)
GeneratesMessages ==
  \A i \in DOMAIN output :
    request # Unreadable => \A n \in DOMAIN request : request[n].wanted =>
      {Header(request[n]), Source(request[n])} \subseteq ToSet(output[i].files)

(* No name of a file has the extension of an output in it.  One that does  *)
(* may collide: "x.pb.h.proto" and "x.proto.proto" have the same header.   *)
PlainNames == \A name \in Names : {".pb.h", ".pb.cc"} \cap ToSet(name) = {}

(* protoc refuses a response with two files of one name.  The entries of a *)
(* complete response have different names, if only each file generated has *)
(* ".proto" in its name; one that does not gets twice its own.             *)
OutputsDistinct ==
  status = 0 =>
    (IsInjective([k \in DOMAIN output[1].files |-> output[1].files[k].name])
       <=> \A i \in DOMAIN request : request[i].wanted => ".proto" \in ToSet(request[i].name))

(***************************************************************************)
(* The inductive invariant.                                                *)
(***************************************************************************)

Entries ==
  UNION {{NoContent(request[i]), Header(request[i]), Source(request[i])} : i \in DOMAIN request}

(* Every variable has its type.                                            *)
TypeOK ==
  /\ request # Unreadable => request \in Seq(File) /\ Sorted(request)
  /\ at \in Nat \ {0}
  /\ step \in {"read", "loop", "header", "source", "failed", "write", "fatal", "exited"}
  /\ files # <<>> => request # Unreadable /\ files \in Seq(Entries)
  /\ error \in BOOLEAN
  /\ status \in {NULL, 0, 1, 120}

(* Which of the files the response has, at each step.                      *)
FilesInv ==
  /\ step = "read" => files = <<>> /\ at = 1
  /\ step # "read" /\ ~error => request # Unreadable
  /\ step = "loop" => at <= Len(request) + 1 /\ Generated(files, at - 1)
  /\ step \in {"header", "failed"} => Interrupted(files, NoContent(request[at]))
  /\ step = "source" => Interrupted(files, Header(request[at]))
  /\ step = "write" => Generated(files, Len(request))
  /\ step = "fatal" => files = <<>>

(* The loop gets past no wanted file that declares messages, and without   *)
(* an error it gets past all files.                                        *)
PassedInv ==
  /\ request # Unreadable =>
       \A n \in DOMAIN request : request[n].wanted /\ n < at => ~HeaderRaises(request[n])
  /\ step = "source" => ~HeaderRaises(request[at])
  /\ step = "write" \/ (step = "exited" /\ ~error) => request # Unreadable /\ at > Len(request)

(* The response has an error exactly if something failed, and what protoc  *)
(* gets of it, if anything, is all of it.                                  *)
OutcomeInv ==
  /\ step # "exited" => output = <<>> /\ status = NULL
  /\ step \in {"read", "loop", "header", "source", "write"} => ~error
  /\ step \in {"failed", "fatal"} => error
  /\ step = "exited" =>
       \/ output = <<>> /\ status \in {1, 120}
       \/ /\ output = <<[files |-> files, error |-> error]>>
          /\ status = IF error THEN 1 ELSE 0

IndInv == TypeOK /\ FilesInv /\ PassedInv /\ OutcomeInv /\ ResponseIsWhole

=============================================================================
