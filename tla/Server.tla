------------------------------- MODULE Server -------------------------------
(***************************************************************************)
(* The components that share no state with one another: the queries of one *)
(* job, the file service, directory listings, the SSH layer, the resource  *)
(* policy and the configuration.  `part` says which of them runs, so that  *)
(* the behaviours are the union of theirs.                                 *)
(***************************************************************************)
EXTENDS WaitLoop, Files, Listing, Transport, Policy, Settings

VARIABLE part  \* the component that runs

Parts == {"wait", "files", "listing", "transport", "policy", "settings"}

-----------------------------------------------------------------------------
(* The parts side by side. *)

ServerInit ==
  /\ part \in Parts
  /\ WaitInit /\ FilesInit /\ ListingInit /\ TransportInit /\ PolicyInit /\ SettingsInit

ServerNext ==
  /\ UNCHANGED part
  /\ \/ part = "wait" /\ WaitNext
        /\ UNCHANGED <<filesVars, listingVars, transportVars, policyVars, settingsVars>>
     \/ part = "files" /\ FilesNext
        /\ UNCHANGED <<waitVars, listingVars, transportVars, policyVars, settingsVars>>
     \/ part = "listing" /\ ListingNext
        /\ UNCHANGED <<waitVars, filesVars, transportVars, policyVars, settingsVars>>
     \/ part = "transport" /\ TransportNext
        /\ UNCHANGED <<waitVars, filesVars, listingVars, policyVars, settingsVars>>
     \/ part = "policy" /\ PolicyNext
        /\ UNCHANGED <<waitVars, filesVars, listingVars, transportVars, settingsVars>>
     \/ part = "settings" /\ SettingsNext
        /\ UNCHANGED <<waitVars, filesVars, listingVars, transportVars, policyVars>>

serverVars == <<part, waitVars, filesVars, listingVars, transportVars, policyVars, settingsVars>>

\* Fairness of the queries (a command answers or is given up, sleeps end) and of
\* the local half of an ssh command, while they run.
ServerSpec ==
  ServerInit /\ [][ServerNext]_serverVars /\ WF_waitVars(part = "wait" /\ WaitStep)
                                         /\ WF_transportVars(part = "transport" /\ LocalStep)

\* Every variable of every component has its type.
TypeOK == WaitTypeOK /\ FilesTypeOK /\ ListingTypeOK /\ TransportTypeOK /\ PolicyTypeOK /\ SettingsTypeOK
=============================================================================
