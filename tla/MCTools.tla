-------------------------------- MODULE MCTools --------------------------------
(* What a browser does for the device, in three set-ups of which one is at     *)
(* work and the others at rest: a text compiled and loaded (MCProvision), a    *)
(* console (MCPage), and the projects and their comparison with a device       *)
(* (MCWorkspace).                                                              *)
EXTENDS MCProvision, MCPage, MCWorkspace

VARIABLE setup

toolVars == <<vars, pageVars, syncVars, setup>>

\* A part at rest is in one of its initial states and stays there; a browser
\* that keeps nothing, and an older page's workspace, matter to reloads.
ToolInit ==
  /\ setup \in {"compile", "page", "workspace"}
  /\ Init /\ PageInit /\ SyncInit
  /\ setup # "page" => day = Day(0, 0, 2, 0, 0)
  /\ setup # "workspace" => plan = Work(1, 2, 0, 0)
  /\ plan.reloads = 0 => durable /\ legacy = None
  /\ plan.syncs = 0 => remote = <<>>

ToolNext ==
  \/ setup = "compile" /\ Next /\ UNCHANGED <<pageVars, syncVars, setup>>
  \/ setup = "page" /\ PageNext /\ UNCHANGED <<vars, syncVars, setup>>
  \/ setup = "workspace" /\ SyncNext /\ UNCHANGED <<vars, pageVars, setup>>

\* FairPageSpec's fairness, for the set-up in which there is a console.
ToolSpec ==
  /\ ToolInit /\ [][ToolNext]_toolVars
  /\ WF_pageVars(setup = "page" /\ Socket)
  /\ WF_pageVars(setup = "page" /\ Saves)
  /\ WF_pageVars(setup = "page" /\ Boots)
  /\ SF_pageVars(setup = "page" /\ Handshake)
================================================================================
