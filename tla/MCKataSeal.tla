----------------------------- MODULE MCKataSeal -----------------------------
(***************************************************************************)
(* KataSeal for TLC: the declarations and commands its checks tell apart.  *)
(***************************************************************************)
EXTENDS KataSeal, TLC

Ids   == {"openai", "apify"}
Wrong == {"Bad Id"}

\* Complete declarations of each version, and ones the room does not start on.
Declared ==
  [version: {1}, mode: {"undeclared", "attested_zero", "other"}, providers: {<<>>}, lane: {""}]
    \cup [version: {2}, mode: {"undeclared"}, lane: {"", "sn22"},
          providers: {<<>>, <<"openai", "openai">>, <<"openai">>, <<"openai", "apify">>,
                      <<"Bad Id">>}]
    \cup [version: {3}, mode: {"http_error"}, providers: {<<>>}, lane: {""}]

Key(n, c) == [len |-> n, char |-> c]

\* Keys at the bounds, and with the characters they may not contain.
KeyTexts == {Key(0, "plain"), Key(15, "plain"), Key(16, "plain"), Key(8192, "plain"),
             Key(8193, "plain"), Key(32, "del"), Key(32, "control")}

KeysWith(key) ==
  [p \in Ids \cup Wrong |-> IF p = "openai" THEN key ELSE Key(32, "plain")]

Command(multi, providers, lane, keys, measurement, verify, envs, keyfiles) ==
  [multi |-> multi, providers |-> providers, lane |-> lane, keys |-> keys,
   measurement |-> measurement, verify |-> verify, envs |-> envs, files |-> keyfiles]

\* Sets that follow the documentation, with every key, the longest of them for
\* another measurement; single keys, of which the room takes the shorter only;
\* commands for another lane, sealed without verification, with too few or wrong
\* providers; and one each with key sources that do not fit.
Invocations ==
  LET good == KeysWith(Key(16, "plain"))
      both == <<"openai", "apify">>
      MeasurementFor(key) == IF key.len = 8192 THEN "other" ELSE "approved"
  IN {Command(TRUE, both, "sn22", KeysWith(key), MeasurementFor(key), TRUE, {"openai"}, {}) :
        key \in KeyTexts}
       \cup {Command(FALSE, <<"openai">>, "", KeysWith(key), "approved", TRUE, {}, {}) :
               key \in {Key(0, "plain"), Key(15, "plain"), Key(8193, "plain")}}
       \cup {Command(TRUE, ids, lane, good, "approved", FALSE, {}, {}) :
               ids \in {<<"apify", "openai">>, <<"Bad Id">>, <<"openai", "openai">>, <<>>},
               lane \in {"", "other"}}
       \cup {Command(TRUE, <<"openai">>, "sn22", good, "approved", TRUE, {}, {}),
             Command(FALSE, <<"openai">>, "sn22", good, "approved", TRUE, {}, {}),
             Command(FALSE, <<"Bad Id">>, "", good, "approved", TRUE, {}, {}),
             Command(TRUE, both, "sn22", good, "approved", TRUE, {"Bad Id"}, {}),
             Command(TRUE, both, "sn22", good, "approved", TRUE, {"apify"}, {"apify"})}

\* An archive grows with its members; here a link takes more than a file, so that
\* each limit of the room is met without the others.
ArchiveOf(dir) ==
  Cardinality(Regular(dir)) + 2 * Cardinality({p \in Paths : dir[p].kind \in DirLinks})

\* The second version of a file is the longer one.
SizeOf == [c \in Contents |-> IF c = Content("text", 2) THEN 3 ELSE 1]

\* The files of the submission are alike, and so are the names mkstemp chooses.
Symmetry == Permutations(AgentPaths) \cup Permutations(TempPaths)

=============================================================================
