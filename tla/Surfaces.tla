------------------------------- MODULE Surfaces -------------------------------
(***************************************************************************)
(* extension/src/webviews/*/main.ts: what each rendered surface lets the   *)
(* user do, as the commands its controls post.  A command is <<name,       *)
(* argument>>; Null stands for no argument, which dispatch.ts fills in.    *)
(* Markup and wording are left out.                                        *)
(***************************************************************************)
EXTENDS ViewModels

When(condition, commands) == IF condition THEN commands ELSE {}

\* The task a command is for: the one it names, else the pinned one, whether
\* the store knows it or not, else the most recent.
targetTask(state, pinned, given) ==
    IF given # Null THEN given
    ELSE IF pinned # Null THEN pinned ELSE currentTask(state)

\* An ask's buttons: the answers they post, all with the seq they show.
Answers(ap, answers) ==
    When(ap # Null, {<<"resolveApproval", [seq |-> ap.seq, answer |-> a]>> :
                         a \in answers})

homeOffers(m) ==
    When(m.canSubmit, {<<"createTask", Null>>})
    \cup {<<"focusTask", row.id>> : row \in Range(m.active) \cup Range(m.recent)}

TaskCommands == {"pauseTask", "resumeTask", "cancelTask"}

workspaceOffers(m) ==
    When(m.taskId # Null /\ ~m.terminal, TaskCommands \X {Null})
    \cup When(m.canSubmit, {<<"createTask", Null>>})
    \cup Answers(m.approval, {"once", "task", "deny"})
    \cup {<<"openDiff", f.path>> : f \in Range(m.files)}

reviewOffers(m) ==
    Answers(m.approval, {"once", "deny"})
    \cup {<<"openDiff", f.path>> : f \in Range(m.files)}

HIGH_RISK == {"destructive", "network", "elevated"}

\* The chat: picker, ask, composer and Stop.  A risky ask is allowed once, and
\* only on a second click.
modelChatOffers(m, caps) ==
    LET high == m.approval # Null /\ Field(m.approval, "risk") \in HIGH_RISK
    IN  When("model_inference" \in caps,
             When(~m.activating,
                  {<<"activateModel", x.id>> : x \in Range(m.models)})
             \cup Answers(m.approval,
                     {"once", "deny"}
                     \cup When(~high /\ "approval_scope" \in caps, {"task"}))
             \cup When(m.canSubmit, {<<"createTask", Null>>})
             \cup When(m.working, {<<"cancelTask", m.taskId>>}))

(***************************************************************************)
(* The card of a row of the model manager.                                 *)
(***************************************************************************)
\* Core scores hardware, but not this model for coding.
unscoredForCoding(m, caps) ==
    "hardware" \in caps /\ m.chatCapable /\ m.suitability = -1

\* The chips a card shows.  An old activation's are withheld while a fresh
\* install runs.
Chips(m, caps, installing) ==
    {c \in {"recommended", "installed", "fit", "unrated", "active", "server"} :
        \/ c = "recommended" /\ m.recommended
        \/ c = "installed" /\ m.installed /\ m.install = Null
        \/ c = "fit" /\ m.fit # Null
        \/ c = "unrated" /\ m.fit = Null /\ unscoredForCoding(m, caps)
        \/ c = "active" /\ ~installing /\ m.active
        \/ /\ c = "server" /\ ~installing
           /\ "model_inference" \in caps /\ m.servers # {}}

\* What the user can do from the card; its buttons are dead while an
\* activation of the model is on its way.
modelCard(m, caps) ==
    LET status     == IF m.install = Null THEN Null ELSE m.install.status
        installing == status = "running"
        installed  == m.installed \/ status = "completed"
        Managed(a) ==
            \/ a = "install" /\ ~installed /\ ~installing
            \/ a = "activate" /\ installed /\ m.chatCapable /\ ~m.active
            \/ a = "restart" /\ installed /\ m.active /\ "failed" \in m.servers
            \/ a = "remove" /\ installed
    IN  [chips |-> Chips(m, caps, installing),
         offers |-> When("model_manage" \in caps,
                         {a \in {"install", "activate", "restart", "remove"} :
                              Managed(a)})
                    \cup When(installing, {"cancel"}),
         disabled |-> m.actionPending]
=============================================================================
