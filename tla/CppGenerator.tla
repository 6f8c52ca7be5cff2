---------------------------- MODULE CppGenerator ----------------------------
(***************************************************************************)
(* compiler/generator/cpp_generator.py: what the header and the source of  *)
(* one file have in common with those of other files, which is their names,*)
(* the macro that guards the header, and what they include.                *)
(*                                                                         *)
(* A name is a sequence of the parts that the code looks at: ".proto",     *)
(* ".", "/" and "_", and what is between them.                             *)
(***************************************************************************)
EXTENDS Naturals, Sequences, SequencesExt

CONSTANTS
  Names,       (* names of files                                           *)
  UpperCase,   (* of what is between, the form in upper case               *)
  MaxFiles     (* bound on the number of files                             *)

ASSUME NamesAssumption == \A name \in Names : name # <<>> /\ name \in Seq(STRING)
ASSUME MaxFilesAssumption == MaxFiles \in Nat

(* What the generator looks at in a file: its name, whether it declares    *)
(* messages, and the imports, as places in the request.  Besides, is it in *)
(* file_to_generate?                                                       *)
File ==
  [name : Names, messages : BOOLEAN, wanted : BOOLEAN,
   dependency : {s \in BoundedSeq(1 .. MaxFiles - 1, MaxFiles - 1) : IsInjective(s)}]

(* protoc sends each file once, and behind the files it imports.           *)
Sorted(request) ==
  /\ IsInjective([i \in DOMAIN request |-> request[i].name])
  /\ \A i \in DOMAIN request : \A d \in ToSet(request[i].dependency) : d < i

(* The requests with n files.                                              *)
Requests(n) == {sent \in [1 .. n -> File] : Sorted(sent)}

(***************************************************************************)
(* Names.                                                                  *)
(***************************************************************************)

(* name.replace(".proto", extension): all of them, wherever they are.      *)
Replaced(name, extension) ==
  [i \in DOMAIN name |-> IF name[i] = ".proto" THEN extension ELSE name[i]]

HeaderName(name) == Replaced(name, ".pb.h")

(* Mutant: the source gets the name of the header.                         *)
SourceNameCopied(name) == Replaced(name, ".pb.h")

SourceName(name) == Replaced(name, ".pb.cc")

(* The name under which a header is included: only the suffix is replaced. *)
IncludeName(name) ==
  IF Last(name) = ".proto" THEN Append(Front(name), ".pb.h") ELSE name

(* The parts of a name in upper case, where "." and "/" become "_".        *)
Upper(part) ==
  CASE part \in {".", "/", "_"} -> <<"_">>
    [] part = ".proto"          -> <<"_", "PROTO">>
    [] OTHER                    -> <<UpperCase[part]>>

header_guard(name) == FlattenSeq([i \in DOMAIN name |-> Upper(name[i])])

(***************************************************************************)
(* Texts.  The namespaces of a file, and what is in them, are its body,    *)
(* which stands behind the includes.                                       *)
(***************************************************************************)

includes(request, file) ==
  [k \in DOMAIN file.dependency |-> IncludeName(request[file.dependency[k]].name)]

(* generate_declaration() of MessageGenerator is called for each message,  *)
(* and there is no method of that name.                                    *)
HeaderRaises(file) == file.messages

(* Mutant: the header includes nothing.                                    *)
generate_header_alone(request, file) ==
  [guard |-> header_guard(file.name), includes |-> <<>>, body |-> file.name]

generate_header(request, file) ==
  [guard |-> header_guard(file.name), includes |-> includes(request, file), body |-> file.name]

generate_source(request, file) ==
  [includes |-> <<HeaderName(file.name)>> \o includes(request, file), body |-> file.name]

=============================================================================
