------------------------------ MODULE MCRequest ------------------------------
(***************************************************************************)
(* Instances of Request for TLC.                                           *)
(***************************************************************************)
EXTENDS Request

CONSTANTS vo, sub, admin

Cmd(kind, g, r) == [kind |-> kind, group |-> g, role |-> r]
All     == Cmd("A", NoGroup, NoRole)
List    == Cmd("N", NoGroup, NoRole)
G(g)    == Cmd("G", g, NoRole)
B(g, r) == Cmd("B", g, r)
R(r)    == Cmd("R", NoGroup, r)
F(g, r) == [group |-> g, role |-> r]

Ask(cmds, ord, lifetime) ==
    [decodes |-> TRUE, cmds |-> cmds, order |-> ord, lifetime |-> lifetime,
     rest |-> FALSE, unknown |-> FALSE]
Rest(cmds, lifetime, unknown) ==
    [Ask(cmds, <<>>, lifetime) EXCEPT !.rest = TRUE, !.unknown = unknown]

\* Every kind of command, alone and after another one, with and without an
\* order, and a lifetime that is absent, zero, granted or too long.
ManyRequests == {
    Ask(<<All>>, <<>>, -1),
    Ask(<<All>>, <<F(sub, NoRole), F(vo, admin)>>, 0),
    Ask(<<G(vo), B(sub, admin)>>, <<>>, 2),
    Ask(<<B(vo, admin), G(sub)>>, <<F(sub, NoRole), F(sub, NoRole)>>, 1),
    Ask(<<R(admin)>>, <<>>, 1),
    Ask(<<List>>, <<F(vo, admin), F(vo, NoRole)>>, 1),
    Ask(<<B(vo, admin), All>>, <<>>, 1),
    Ask(<<G(vo), Cmd("unknown", vo, NoRole)>>, <<>>, 1),
    Ask(<<Cmd("crash", NoGroup, admin)>>, <<>>, 1),
    [Ask(<<All>>, <<>>, -1) EXCEPT !.decodes = FALSE],
    Rest(<<B(sub, admin), G(vo)>>, 2, TRUE),
    Rest(<<G(vo)>>, 1, FALSE)}

==============================================================================
