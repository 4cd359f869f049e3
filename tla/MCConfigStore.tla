----------------------------- MODULE MCConfigStore -----------------------------
(***************************************************************************)
(* ConfigStore for TLC: the user leaves nothing, something unreadable, the *)
(* defaults, an invalid level, or an embedded backend with settings that   *)
(* only it ignores; in the dialog they enter something valid or not.       *)
(***************************************************************************)
EXTENDS ConfigStore

BadLevel == [Default EXCEPT !.level = "other", !.notify = TRUE]
Embedded == [Default EXCEPT !.backend = "embedded", !.timeout = "bad",
                            !.socket = "abs", !.notify = TRUE]
Newer == [Default EXCEPT !.version = 2]

MCContents == {Missing, Garbage, Default, BadLevel, Embedded, Newer}
OnlyMissing == {Missing}

MCEntries == {[Controls(Default) EXCEPT !.level = "debug", !.socket = "blank"],
              [Controls(Default) EXCEPT !.socket = "rel", !.pageant = FALSE],
              [Controls(Embedded) EXCEPT !.backend = "openssh"]}

================================================================================
