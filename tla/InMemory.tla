------------------------------ MODULE InMemory ------------------------------
(***************************************************************************)
(* The in-memory user, Dinoparc, auth and OAuth provider stores and the    *)
(* in-memory clients of the games, side by side: they share the clock and  *)
(* nothing else.                                                           *)
(***************************************************************************)
EXTENDS MemAccountStores, MemDinoparcStore, MemGameClients

memVars == <<now, userVars, authVars, archiveVars, hfClientVars, dpClientVars>>

InitInMemory == /\ now = 0
                /\ InitUsers /\ InitAuth /\ InitArchive
                /\ InitHfClient /\ InitDpClient

UsersStep == /\ NextUsers
             /\ UNCHANGED <<now, authVars, archiveVars, hfClientVars, dpClientVars>>

AuthStep == /\ NextAuth
            /\ UNCHANGED <<now, userVars, archiveVars, hfClientVars, dpClientVars>>

ArchiveStep == /\ NextArchive
               /\ UNCHANGED <<now, userVars, authVars, hfClientVars, dpClientVars>>

HfClientStep == /\ NextHfClient
                /\ UNCHANGED <<now, userVars, authVars, archiveVars, dpClientVars>>

DpClientStep == /\ NextDpClient
                /\ UNCHANGED <<now, userVars, authVars, archiveVars, hfClientVars>>

ClockStep == /\ now < MaxNow /\ now' = now + 1
             /\ UNCHANGED <<userVars, authVars, archiveVars, hfClientVars, dpClientVars>>

NextInMemory == \/ UsersStep \/ AuthStep \/ ArchiveStep
                \/ HfClientStep \/ DpClientStep \/ ClockStep

InMemorySpec == InitInMemory /\ [][NextInMemory]_memVars
=============================================================================
