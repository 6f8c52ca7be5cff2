------------------------------ MODULE MCTests ------------------------------
(***************************************************************************)
(* The test programs tests/arena_string_test.cc and                        *)
(* tests/skip_unknown_test.cc, as far as they expect what the code does    *)
(* not do: three of their tests, run one after the other over the strings  *)
(* of module ArenaString and the skipper of module Skipper.  A test has a  *)
(* field of its own; each of its lines calls one function or compares.     *)
(***************************************************************************)
EXTENDS ArenaString

CONSTANTS Radix, Groups, Groups32, Word, Word32, Behind, Fixed32Size, Fixed64Size

Runtime == INSTANCE Skipper

(* The fields of two tests, which differ, and an arena.                    *)
CONSTANTS onArena, empty, arena

VARIABLES
  line,     (* the line that comes next                                    *)
  failed    (* the tests that have failed                                  *)

TestInit == Init /\ line = "ArenaConstruction" /\ failed = {}

Do(from, to, call) == line = from /\ line' = to /\ call /\ UNCHANGED failed

Expect(from, to, test, holds) ==
  /\ line = from /\ line' = to
  /\ failed' = IF holds THEN failed ELSE failed \cup {test}
  /\ UNCHANGED vars

(* ArenaString str(&arena); EXPECT_TRUE(str.IsDefault());                  *)
ArenaConstruction ==
  \/ Do("ArenaConstruction", "arena:22", Construct(onArena, arena))
  \/ Expect("arena:22", "SetEmpty", "ArenaConstruction", IsDefault(onArena))

(* ArenaString str; str.Set("", &arena); EXPECT_FALSE(str.IsDefault());    *)
SetEmpty ==
  \/ Do("SetEmpty", "arena:35", Construct(empty, NULL))
  \/ Do("arena:35", "arena:37", Set(empty, EmptyValue, arena))
  \/ Expect("arena:37", "InlineSkip", "SetEmpty", ~IsDefault(empty))

(* data = {0x08, 0x7f}; EXPECT_EQ(SkipVarintInline(data), data + 2): two   *)
(* bytes that do not continue, the second with all digits set.             *)
InlineSkip ==
  Expect("InlineSkip", "end", "InlineSkipPerformance",
         Runtime!SkipVarintInline(<<8, Radix - 1>>, 1) = 1 + 2)

Finished == line = "end" /\ UNCHANGED <<vars, line, failed>>

TestNext == ArenaConstruction \/ SetEmpty \/ InlineSkip \/ Finished

TestSpec == TestInit /\ [][TestNext]_<<vars, line, failed>>

(* RUN_ALL_TESTS() finds no test that fails, as tests/test_main.cc would   *)
(* report it.                                                              *)
TestsPass == line = "end" => failed = {}

=============================================================================
