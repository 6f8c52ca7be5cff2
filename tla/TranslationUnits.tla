-------------------------- MODULE TranslationUnits --------------------------
(***************************************************************************)
(* What a compiler makes of the files that the plugin generates.  It finds *)
(* a header under the name of its output; those of files that are only     *)
(* imported have been generated by other calls.  No call generates that of *)
(* a file that declares messages.                                          *)
(***************************************************************************)
EXTENDS Plugin

(* A line of a text: an #include, or the body of a file.                   *)
Line(kind, name) == [kind |-> kind, name |-> name]

Lines(names) == [k \in DOMAIN names |-> Line("include", names[k])]

(* A translation unit: the guards that are defined in it, the bodies it    *)
(* has so far, the names that no file has, and the text that is left.      *)
Part(guards, bodies, missing, text) ==
  [guards |-> guards, bodies |-> bodies, missing |-> missing, text |-> text]

HeadersOf(name) ==
  {file \in ToSet(request) : ~HeaderRaises(file) /\ HeaderName(file.name) = name}

(* The preprocessor reads a line.  A header whose guard is defined is      *)
(* passed over; the text of another one takes the place of its #include.   *)
Preprocess(unit) ==
  LET line   == Head(unit.text)
      rest   == Tail(unit.text)
      file   == CHOOSE file \in HeadersOf(line.name) : TRUE
      header == generate_header(request, file)
  IN  IF unit.text = <<>> THEN unit
      ELSE IF line.kind = "body"
        THEN Part(unit.guards, Append(unit.bodies, line.name), unit.missing, rest)
      ELSE IF HeadersOf(line.name) = {}
        THEN Part(unit.guards, unit.bodies, unit.missing \cup {line.name}, rest)
      ELSE IF header.guard \in unit.guards
        THEN Part(unit.guards, unit.bodies, unit.missing, rest)
      ELSE Part(unit.guards \cup {header.guard}, unit.bodies, unit.missing,
                (Lines(header.includes) \o <<Line("body", header.body)>>) \o rest)

(* No text has more than MaxFiles lines, and each is read once.            *)
Steps == MaxFiles + Len(request) * (MaxFiles + 1)

Unit(source) ==
  LET unit[n \in 0 .. Steps] ==
        IF n = 0 THEN Part({}, <<>>, {}, Lines(source.includes)) ELSE Preprocess(unit[n - 1])
  IN  unit[Steps]

(* The files that i imports, directly or not: the least set with its       *)
(* imports and theirs.                                                     *)
Imports(i) ==
  {d \in DOMAIN request :
     \A s \in SUBSET DOMAIN request :
       (\A k \in s \cup {i} : ToSet(request[k].dependency) \subseteq s) => d \in s}

(* Does the unit have the bodies of these files, each behind what the file *)
(* imports?                                                                *)
Has(unit, files_) ==
  \A i \in files_ :
    \E at_ \in DOMAIN unit.bodies :
      /\ unit.bodies[at_] = request[i].name
      /\ \A d \in ToSet(request[i].dependency) :
           \E k \in 1 .. at_ - 1 : unit.bodies[k] = request[d].name

(* The header of the file exists under the name by which it is included.   *)
IsThere(file) == ~file.messages /\ HeaderName(file.name) = IncludeName(file.name)

(* A source that is compiled is read to its end, and sees the bodies of    *)
(* its own file and of all it imports, each once and behind those it       *)
(* imports itself, exactly if three conditions hold.  The guards of these  *)
(* files differ: they do not if the names differ only in "/", "." and "_", *)
(* or in case.  No import has ".proto" in the middle of its name: the      *)
(* output of such a file is named otherwise than what is included.  And no *)
(* import declares messages.                                               *)
SourcesSeeImports ==
  status = 0 =>
    \A i \in DOMAIN request : request[i].wanted =>
      LET unit == Unit(generate_source(request, request[i]))
          own  == Imports(i) \cup {i}
      IN  /\ unit.text = <<>>
          /\ IsInjective(unit.bodies)
          /\ Has(unit, own) <=>
               /\ \A j, k \in own :
                    header_guard(request[j].name) = header_guard(request[k].name) => j = k
               /\ \A d \in Imports(i) : IsThere(request[d])
          /\ unit.missing # {} => \E d \in Imports(i) : ~IsThere(request[d])

=============================================================================
