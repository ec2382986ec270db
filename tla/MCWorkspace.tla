------------------------------- MODULE MCWorkspace -----------------------------
(* Projects of at most two files a kind, and a device to compare them with.  A *)
(* plan bounds what the user, the other consoles and the line do.              *)
EXTENDS DeviceSync

Dropped(kind, name, contents) == [kind |-> kind, name |-> name, text |-> contents]

MCDrops == {<<Dropped("fnl", <<"show">>, "b"), Dropped("fnl", <<>>, "b")>>,
            <<Dropped("fdef", <<"par">>, "b")>>}

MCLegacies == {None, [show |-> "a", boot |-> "b", fdefs |-> <<>>, mdefs |-> <<>>]}

MCSeed ==
  [name |-> "demo", patch |-> "a", fdef |-> <<[name |-> <<"par">>, text |-> "a"]>>, mdef |-> <<>>,
   fnl |-> <<[name |-> <<"boot">>, text |-> "a"]>>, boot |-> <<"boot">>]

MCTyped == {<<"show">>}

Work(edits, drops, flows, reloads) ==
  [edits |-> edits, looks |-> edits, files |-> drops, flows |-> flows, reloads |-> reloads,
   syncs |-> 0, presses |-> 0, others |-> 0, late |-> 0, losses |-> 0]

Session(edits, drops, flows, presses, elsewhere, slow, breaks) ==
  [edits |-> edits, looks |-> edits, files |-> drops, flows |-> flows, reloads |-> 0,
   syncs |-> 1, presses |-> presses, others |-> elsewhere, late |-> slow, losses |-> breaks]

MCPlans ==
  {Work(1, 2, 0, 0), Work(0, 3, 0, 0), Work(1, 0, 1, 1), Work(1, 0, 2, 0), Work(0, 1, 2, 0),
   Session(1, 0, 0, 2, 0, 0, 0), Session(0, 0, 0, 2, 1, 0, 0), Session(1, 0, 0, 1, 1, 0, 0),
   Session(1, 0, 0, 1, 0, 1, 0), Session(1, 0, 0, 1, 0, 0, 1), Session(0, 1, 0, 1, 0, 0, 0),
   Session(0, 0, 1, 1, 0, 0, 0)}

\* For MCPullIsSafe.cfg.
RefusedPush == {Session(1, 0, 0, 2, 0, 0, 0)}

MCAboard == {<<>>, (<<"boot">> :> "b")}

MCRemarks == {[name |-> <<"boot">>, text |-> "b"], [name |-> <<"show">>, text |-> "b"]}
================================================================================
