------------------------------- MODULE MCParts -------------------------------
(***************************************************************************)
(* Small instances of parts that share no state.  The initial state picks  *)
(* the part that runs, the others stay in an initial state of theirs:      *)
(* interleaving them would multiply the states and show nothing new.       *)
(***************************************************************************)
EXTENDS OAuthStates, Confirmations, Accounts, WorkUpdate, EmployeeDirectory,
        StaffReads, AgentRun, TLC

CONSTANTS x1, x2

VARIABLE part

\* Every way to match: by group where no name does, by name where no id does,
\* and a name of two statuses.
MCNamed ==
    [r \in References |->
        CASE r = "started" -> [id |-> {}, name |-> {x1}, group |-> {x1, x2}]
          [] r = "x2" -> [id |-> {x2}, name |-> {x1}, group |-> {}]
          [] OTHER -> [id |-> {}, name |-> {x1, x2}, group |-> {}]]

PartsInit ==
    /\ part \in {"oauth", "confirmations", "accounts", "work", "agents", "directory",
                "reads"}
    /\ OAuthInit /\ ConfirmationInit /\ AccountsInit /\ AgentInit
    /\ IF part = "work" THEN WorkInit
       ELSE /\ visible = {} /\ workflow = [p \in Projects |-> {}]
            /\ place = [i \in Items |-> None] /\ status = place
            /\ work = [c \in Operations |-> Idle]
            /\ shown = [c \in Operations |-> {}]
    /\ IF part = "directory" THEN DirectoryInit
       ELSE /\ archived = {} /\ employees = <<>> /\ links = <<>>
            /\ writer = <<>>
    /\ IF part = "reads" THEN ReadsInit
       ELSE /\ member = <<>> /\ reader = <<>> /\ met = <<>>
            /\ answer = [r \in Readers |-> None]
    /\ part # "accounts" => address = CHOOSE f \in [Subjects -> Addresses] :
                                         \A g, h \in Subjects : f[g] = f[h] => g = h

PartsNext ==
    /\ UNCHANGED part
    /\ \/ /\ part = "oauth" /\ OAuthNext
          /\ UNCHANGED <<confirmationVars, accountVars, workVars, agentVars, directoryVars,
                         readsVars>>
       \/ /\ part = "confirmations" /\ ConfirmationNext
          /\ UNCHANGED <<oauthVars, accountVars, workVars, agentVars, directoryVars,
                         readsVars>>
       \/ /\ part = "accounts" /\ AccountsNext
          /\ UNCHANGED <<oauthVars, confirmationVars, workVars, agentVars, directoryVars,
                         readsVars>>
       \/ /\ part = "work" /\ WorkNext
          /\ UNCHANGED <<oauthVars, confirmationVars, accountVars, agentVars, directoryVars,
                         readsVars>>
       \/ /\ part = "agents" /\ AgentNext
          /\ UNCHANGED <<oauthVars, confirmationVars, accountVars, workVars, directoryVars,
                         readsVars>>
       \/ /\ part = "directory" /\ DirectoryNext
          /\ UNCHANGED <<oauthVars, confirmationVars, accountVars, workVars, agentVars,
                         readsVars>>
       \/ /\ part = "reads" /\ ReadsNext
          /\ UNCHANGED <<oauthVars, confirmationVars, accountVars, workVars, agentVars,
                         directoryVars>>

PartsSpec ==
    PartsInit /\ [][PartsNext]_<<part, oauthVars, confirmationVars, accountVars,
                                 workVars, agentVars, directoryVars, readsVars>>

\* Logins: values that no definition tells apart.
PartsSymmetry == Permutations(Logins)

(* The type invariants of the parts; that of Accounts includes the unique  *)
(* indexes: two first logins of one address do not make two accounts; that *)
(* of EmployeeDirectory that every identity link leads to one employee.    *)
PartsTypeOK ==
    /\ part = "oauth" => OAuthTypeOK
    /\ part = "confirmations" => ConfirmationTypeOK
    /\ part = "accounts" => AccountsTypeOK
    /\ part = "work" => WorkTypeOK
    /\ part = "agents" => AgentTypeOK
    /\ part = "directory" => DirectoryTypeOK
    /\ part = "reads" => ReadsTypeOK
=============================================================================
