----------------------------- MODULE MCKeyDispatch -----------------------------
(* An instance of KeyDispatch for TLC: files that rebind what leaves a mode. *)
EXTENDS KeyDispatch

MCChars == {"c", "q", "k", "j", "/", "t", "s", "r", "d", "u", "?", "x"}
MCCodes == {"c", "q", "t", "u", "?", "enter", "esc", "up", "down", "f1", "backspace"}
MCModifiers == {{}, {"ctrl", "shift"}, {"alt"}}

bind(action, keys) == {[a \in {action} |-> k] : k \in keys} \cup {<<>>}

\* What one file may say: each part is left out or one of a few lists of names.
Files ==
  {q @@ b @@ s @@ h :
    q \in bind(QUIT, {<<>>, <<Key("q")>>, <<Ctrl("q"), Ctrl("q")>>}),
    b \in bind(BROWSE_QUIT, {<<>>, <<Key("escape"), Key("esc")>>}),
    s \in bind(<<"search", "close">>, {<<>>}),
    h \in bind(<<"help", "close">>, {<<Key("f1")>>})}

Bad == {[a \in {QUIT} |-> <<Key("f13")>>], [a \in {<<"browse", "fly">>} |-> <<Key("x")>>]}

Later == {[a \in {BROWSE_QUIT, <<"help", "up">>} |-> <<Key("x")>>],
          [a \in {QUIT, BROWSE_QUIT} |-> <<>>]}

MCConfigs == {<<>>} \cup {<<f>> : f \in Files \cup Bad} \cup {<<f, g>> : f \in bind(QUIT, {<<>>}), g \in Later}
=============================================================================
