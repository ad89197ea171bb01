------------------------------ MODULE Commands ------------------------------
(***************************************************************************)
(* The bridge command handler wrapper (src/unnamed/part_000, package       *)
(* commands): FullHandler.Run checks a handler's requirements against the  *)
(* user, the room and the bridge, in order, and either replies with the    *)
(* first unmet one or runs the handler's Func; userHasRoomPermission       *)
(* fetches the room's power levels from the homeserver.                    *)
(*                                                                         *)
(* Each element of Cmds is one command event handled by one FullHandler.   *)
(* The handler's flags, the user's permissions, the portal and the login   *)
(* are chosen when the command arrives; power levels are small integers.   *)
(***************************************************************************)
EXTENDS Naturals, Sequences, TLAPS

CONSTANTS
    Cmds,      \* command events
    Levels     \* power levels a user or an event type may have

ASSUME CommandsAssumption == Levels \subseteq Nat /\ Levels # {}

\* The flags of a FullHandler (lines 327-339); eventLevel is FALSE when
\* RequiresEventLevel.Type is empty.
Handlers == [admin : BOOLEAN, loginPerm : BOOLEAN, eventLevel : BOOLEAN,
             portal : BOOLEAN, login : BOOLEAN]

\* What the command event carries: the user's bridge permissions, whether
\* the room is a portal and whether the user has a default login.
Events == [isAdmin : BOOLEAN, canLogin : BOOLEAN, inPortal : BOOLEAN,
           loggedIn : BOOLEAN]

\* What GetPowerLevels returns: an error, or the user's level and the
\* level required for the event type.
PowerLevels == [ok : {FALSE}] \cup [ok : {TRUE}, user : Levels, needed : Levels]

VARIABLES
    state,     \* "new", "handled" per command
    handler,   \* the FullHandler a command was routed to
    evt,       \* the command event
    levels,    \* the GetPowerLevels result, if it was fetched
    replies,   \* the ce.Reply messages sent, in order
    ran        \* whether fh.Func(ce) ran

vars == <<state, handler, evt, levels, replies, ran>>

\* The power levels of a command for which they were not fetched.
NotFetched == [ok |-> FALSE, fetched |-> FALSE]

Init ==
    /\ state = [c \in Cmds |-> "new"]
    /\ handler \in [Cmds -> Handlers]
    /\ evt \in [Cmds -> Events]
    /\ levels = [c \in Cmds |-> NotFetched]
    /\ replies = [c \in Cmds |-> <<>>]
    /\ ran = [c \in Cmds |-> FALSE]

\* A mutant of HasRoomPermission that lets the user through when the power
\* levels cannot be fetched.
HasRoomPermissionOnError(pl) == ~pl.ok \/ pl.user >= pl.needed

\* A mutant of HasRoomPermission that requires a level above the event's.
HasRoomPermissionStrict(pl) == pl.ok /\ pl.user > pl.needed

\* userHasRoomPermission, lines 359-367: deny on a fetch error, otherwise
\* compare the user's level with the event's.
HasRoomPermission(pl) == pl.ok /\ pl.user >= pl.needed

\* The reply userHasRoomPermission itself sends (line 363).
PermissionReplies(pl) == IF pl.ok THEN <<>> ELSE <<"levelsFailed">>

(***************************************************************************)
(* FullHandler.Run, lines 369-383: the first unmet requirement gets a      *)
(* reply, in the order of the if-chain; the power levels are fetched only  *)
(* when the handler requires an event level and the user is not a bridge  *)
(* admin (Go's && short-circuits), and that fetch may itself reply.        *)
(***************************************************************************)
Run(c) ==
    /\ state[c] = "new"
    /\ state' = [state EXCEPT ![c] = "handled"]
    /\ \E pl \in PowerLevels :
        LET h == handler[c]
            e == evt[c]
            fetch == /\ ~(h.admin /\ ~e.isAdmin)
                     /\ ~(h.loginPerm /\ ~e.canLogin)
                     /\ h.eventLevel /\ ~e.isAdmin
            out ==
              IF h.admin /\ ~e.isAdmin THEN <<"notAdmin">>
              ELSE IF h.loginPerm /\ ~e.canLogin THEN <<"noLoginPerm">>
              ELSE IF fetch /\ ~HasRoomPermission(pl)
                   THEN PermissionReplies(pl) \o <<"notRoomAdmin">>
              ELSE IF h.portal /\ ~e.inPortal THEN <<"notPortal">>
              ELSE IF h.login /\ ~e.loggedIn THEN <<"notLoggedIn">>
              ELSE <<>>
        IN  /\ levels' = [levels EXCEPT ![c] = IF fetch THEN pl ELSE NotFetched]
            /\ replies' = [replies EXCEPT ![c] = out]
            /\ ran' = [ran EXCEPT ![c] = (out = <<>>)]
    /\ UNCHANGED <<handler, evt>>

Next == \E c \in Cmds : Run(c)

Spec == Init /\ [][Next]_vars

-----------------------------------------------------------------------------
\* The requirements of command c's handler that its event meets: a bridge
\* admin for RequiresAdmin, login permission, a bridge admin or a room power
\* level at least the event's (as the homeserver reported it) for
\* RequiresEventLevel, a portal room and a default login.
MeetsRequirements(c) ==
    LET h == handler[c]
        e == evt[c]
    IN  /\ h.admin => e.isAdmin
        /\ h.loginPerm => e.canLogin
        /\ h.eventLevel =>
              \/ e.isAdmin
              \/ levels[c].ok /\ levels[c].user >= levels[c].needed
        /\ h.portal => e.inPortal
        /\ h.login => e.loggedIn

(***************************************************************************)
(* A handler's Func runs only for a command that meets every requirement   *)
(* of the handler (FullHandler.Run and userHasRoomPermission).             *)
(***************************************************************************)
FuncRunsOnlyWhenAllowed ==
    \A c \in Cmds : ran[c] => MeetsRequirements(c)

(***************************************************************************)
(* No command that meets every requirement is refused: once Run has        *)
(* handled it, Func ran.  In particular a bridge admin is never refused    *)
(* for RequiresEventLevel, and a user whose power level equals the         *)
(* required one passes userHasRoomPermission (lines 359-367).              *)
(***************************************************************************)
AllowedCommandsRun ==
    \A c \in Cmds : state[c] = "handled" /\ MeetsRequirements(c) => ran[c]

-----------------------------------------------------------------------------
(***************************************************************************)
(* Proof that FuncRunsOnlyWhenAllowed holds for any commands and levels.   *)
(* It is inductive together with the types of the state it reads: a Run    *)
(* step sets ran[c] only when its if-chain reached Func, and it fixes      *)
(* levels[c] to the power levels that chain compared.                      *)
(***************************************************************************)
CInv ==
    /\ handler \in [Cmds -> Handlers]
    /\ evt \in [Cmds -> Events]
    /\ ran \in [Cmds -> BOOLEAN]
    /\ levels \in [Cmds -> PowerLevels \cup {NotFetched}]
    /\ state \in [Cmds -> {"new", "handled"}]
    /\ FuncRunsOnlyWhenAllowed
    /\ AllowedCommandsRun

\* A Run step of command c keeps CInv.
LEMMA RunKeepsCInv ==
    ASSUME CInv, NEW c \in Cmds, Run(c)
    PROVE  CInv'
<1> DEFINE h == handler[c]
           e == evt[c]
           fetch == /\ ~(h.admin /\ ~e.isAdmin)
                    /\ ~(h.loginPerm /\ ~e.canLogin)
                    /\ h.eventLevel /\ ~e.isAdmin
           out(pl) ==
             IF h.admin /\ ~e.isAdmin THEN <<"notAdmin">>
             ELSE IF h.loginPerm /\ ~e.canLogin THEN <<"noLoginPerm">>
             ELSE IF fetch /\ ~HasRoomPermission(pl)
                  THEN PermissionReplies(pl) \o <<"notRoomAdmin">>
             ELSE IF h.portal /\ ~e.inPortal THEN <<"notPortal">>
             ELSE IF h.login /\ ~e.loggedIn THEN <<"notLoggedIn">>
             ELSE <<>>
<1>1. PICK pl \in PowerLevels :
        /\ levels' = [levels EXCEPT ![c] = IF fetch THEN pl ELSE NotFetched]
        /\ replies' = [replies EXCEPT ![c] = out(pl)]
        /\ ran' = [ran EXCEPT ![c] = (out(pl) = <<>>)]
  BY DEF Run
<1>2. /\ handler' = handler /\ evt' = evt
      /\ state' = [state EXCEPT ![c] = "handled"]
      /\ ran' \in [Cmds -> BOOLEAN]
      /\ levels' \in [Cmds -> PowerLevels \cup {NotFetched}]
      /\ state' \in [Cmds -> {"new", "handled"}]
  BY <1>1 DEF Run, CInv
<1>3. \A d \in Cmds \ {c} :
        /\ ran'[d] = ran[d] /\ state'[d] = state[d]
        /\ MeetsRequirements(d)' = MeetsRequirements(d)
  BY <1>1, <1>2 DEF CInv, MeetsRequirements
<1>4. /\ ran'[c] = (out(pl) = <<>>) /\ state'[c] = "handled"
      /\ fetch => levels'[c] = pl
  BY <1>1, <1>2 DEF CInv
\* Func ran exactly when c meets its requirements, with the levels fetched.
<1>5. (out(pl) = <<>>) <=> MeetsRequirements(c)'
  <2>1. PermissionReplies(pl) \o <<"notRoomAdmin">> # <<>>
    BY DEF PermissionReplies
  <2>2. ASSUME out(pl) = <<>> PROVE MeetsRequirements(c)'
    <3>1. /\ ~(h.admin /\ ~e.isAdmin) /\ ~(h.loginPerm /\ ~e.canLogin)
          /\ ~(fetch /\ ~HasRoomPermission(pl))
          /\ ~(h.portal /\ ~e.inPortal) /\ ~(h.login /\ ~e.loggedIn)
      BY <2>1, <2>2
    <3>2. QED
      BY <3>1, <1>2, <1>4 DEF HasRoomPermission, MeetsRequirements
  <2>3. ASSUME MeetsRequirements(c)' PROVE out(pl) = <<>>
    <3>1. /\ ~(h.admin /\ ~e.isAdmin) /\ ~(h.loginPerm /\ ~e.canLogin)
          /\ ~(h.portal /\ ~e.inPortal) /\ ~(h.login /\ ~e.loggedIn)
      BY <2>3, <1>2 DEF MeetsRequirements
    <3>2. fetch => HasRoomPermission(pl)
      BY <2>3, <1>2, <1>4, <3>1 DEF MeetsRequirements, HasRoomPermission
    <3>3. QED
      BY <3>1, <3>2
  <2>4. QED
    BY <2>2, <2>3
<1>6. FuncRunsOnlyWhenAllowed'
  <2> SUFFICES ASSUME NEW d \in Cmds, ran'[d] PROVE MeetsRequirements(d)'
    BY DEF FuncRunsOnlyWhenAllowed
  <2>1. CASE d = c
    BY <2>1, <1>4, <1>5
  <2>2. CASE d # c
    BY <2>2, <1>3 DEF CInv, FuncRunsOnlyWhenAllowed
  <2>3. QED
    BY <2>1, <2>2
<1>7. AllowedCommandsRun'
  <2> SUFFICES ASSUME NEW d \in Cmds, state'[d] = "handled",
                      MeetsRequirements(d)'
               PROVE  ran'[d]
    BY DEF AllowedCommandsRun
  <2>1. CASE d = c
    BY <2>1, <1>4, <1>5
  <2>2. CASE d # c
    BY <2>2, <1>3 DEF CInv, AllowedCommandsRun
  <2>3. QED
    BY <2>1, <2>2
<1>8. QED
  BY <1>2, <1>6, <1>7 DEF CInv

\* CInv holds in every state, whatever the commands and levels.
LEMMA AlwaysCInv == Spec => []CInv
<1>1. Init => CInv
  BY DEF Init, CInv, FuncRunsOnlyWhenAllowed, AllowedCommandsRun
<1>2. CInv /\ [Next]_vars => CInv'
  <2> SUFFICES ASSUME CInv, [Next]_vars PROVE CInv'
    OBVIOUS
  <2>1. CASE Next
    BY <2>1, RunKeepsCInv DEF Next
  <2>2. CASE UNCHANGED vars
    BY <2>2 DEF vars, CInv, FuncRunsOnlyWhenAllowed, AllowedCommandsRun,
       MeetsRequirements
  <2>3. QED
    BY <2>1, <2>2
<1>3. QED
  BY <1>1, <1>2, PTL DEF Spec

\* FullHandler.Run never runs a handler's Func for a command that fails one
\* of the handler's requirements, whatever the commands and levels.
THEOREM FuncRunsOnlyWhenAllowedHolds == Spec => []FuncRunsOnlyWhenAllowed
BY AlwaysCInv, PTL DEF CInv

\* FullHandler.Run refuses no command that meets every requirement of its
\* handler, whatever the commands and levels: the if-chain replies only on
\* an unmet requirement, and userHasRoomPermission's >= admits a user at
\* exactly the required level.
THEOREM AllowedCommandsAreRun == Spec => []AllowedCommandsRun
BY AlwaysCInv, PTL DEF CInv

=============================================================================
