--------------------------------- MODULE Office --------------------------------
(***************************************************************************)
(* The pages of the website where several people write to the same         *)
(* records: support tickets, the rulebook, the drives of the factions, the *)
(* project board, the gangs, and the notices some of them send; and what   *)
(* the website and the bot do beside them by themselves: the checks of the *)
(* status page, the bot's messages, the refreshes from Steam.  They share  *)
(* the people and the notifications; a scene offers the requests of one    *)
(* page.                                                                   *)
(***************************************************************************)
EXTENDS Tickets, Rulebook, Drive, Board, Bulletin, Steam, Gangs

CONSTANT Scenes     \* "notices", "tickets", "rules", "drive", "order", "parts", "labels",
                    \* "gangs", "steam", "status", "welcome"

VARIABLE offered    \* which scene this is

deskVars == <<noticeVars, ticketVars, ruleVars, driveVars, boardVars>>
watchVars == <<monitorVars, bulletinVars>>
officeVars == <<deskVars, gangVars, steamVars, watchVars, offered>>

Init ==
    /\ offered \in Scenes
    /\ NoticesInit /\ TicketsInit /\ RulebookInit /\ DriveInit /\ BoardInit
    /\ GangsInit /\ SteamInit /\ MonitorInit /\ BulletinInit

InScene(scene) == offered = scene /\ UNCHANGED offered

Desks ==
    \/ /\ InScene("notices") /\ UNCHANGED <<ticketVars, ruleVars, driveVars, boardVars>>
       /\ NoticesNext \/ PeopleChange
    \/ /\ InScene("tickets") /\ UNCHANGED <<ruleVars, driveVars, boardVars>>
       /\ TicketsNext \/ (StaffChange /\ UNCHANGED ticketVars)
    \/ /\ InScene("rules") /\ UNCHANGED <<ticketVars, driveVars, boardVars>>
       /\ RulebookNext
    \/ /\ InScene("drive") /\ UNCHANGED <<noticeVars, ticketVars, ruleVars, boardVars>>
       /\ DriveNext
    \/ /\ UNCHANGED <<noticeVars, ticketVars, ruleVars, driveVars>>
       /\ \/ InScene("order") /\ OrderNext
          \/ InScene("parts") /\ PartsNext
          \/ InScene("labels") /\ LabelsNext

Next ==
    \/ Desks /\ UNCHANGED <<gangVars, steamVars, watchVars>>
    \/ InScene("gangs") /\ GangsNext /\ UNCHANGED <<deskVars, steamVars, watchVars>>
    \/ InScene("steam") /\ SteamNext /\ UNCHANGED <<deskVars, gangVars, watchVars>>
    \/ /\ UNCHANGED <<deskVars, gangVars, steamVars>>
       /\ \/ InScene("status") /\ StatusNext
          \/ InScene("welcome") /\ WelcomeNext

Spec == Init /\ [][Next]_officeVars

===============================================================================
