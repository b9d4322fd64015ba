-------------------------- MODULE AuthEnvironment ---------------------------
(***************************************************************************)
(* Where credentials are looked for: check_auth of the Claude Code adapter *)
(* (src/anycli/adapters/claude_code.py) and check_env (src/anycli/doctor.  *)
(* py).  check_auth reads the environment on the event loop and the file   *)
(* system in a worker thread, while other tasks may set and unset          *)
(* variables and other processes log in and out.                           *)
(***************************************************************************)
EXTENDS SequencesExt

(* An empty value is treated as if it were not set; "blank" is white space,*)
(* "padded" a value with white space around it.                            *)
Values == {"unset", "blank", "padded", "set"}

Environments == [apiKey : Values, oauthToken : Values, configDir : Values]

(* The home directory's, the one CLAUDE_CONFIG_DIR names without its white *)
(* space, and the one a blank or padded value names with it: no directory, *)
(* one without and one with a credentials file.                            *)
Dirs == {"home", "override", "literal"}
Files == [Dirs -> {"absent", "empty", "credentials"}]

(* The methods of an AuthStatus, in the CLI's order of precedence.         *)
Precedence == <<"api_key", "oauth_token", "subscription", "none">>
Methods == {"api_key", "oauth_token", "subscription", "none"}

VARIABLES
  env,      \* os.environ, as far as it matters
  files,    \* the directories credentials are kept in
  pc,       \* where check_auth is suspended
  apiKey, oauthToken, dir, present,   \* its locals
  status,   \* the AuthStatus it returned
  winners,  \* history: every method that was right at some time of the call
  changed   \* history: what has changed during the call

locals == <<apiKey, oauthToken, dir, present>>
history == <<winners, changed>>
vars == <<env, files, pc, locals, status, history>>

-----------------------------------------------------------------------------
(* os.environ.get(...).strip() leaves something.                           *)
Stripped(value) == value \in {"padded", "set"}

(* _claude_config_dir                                                      *)
ConfigDir(e) == IF Stripped(e.configDir) THEN "override" ELSE "home"

(* Mutants, named Mutant*, are plausible slips of the definition that      *)
(* follows them; they are there to show that the properties notice.        *)

(* A token alone is not enough.                                            *)
MutantAuthStatus(key, token, creds) ==
  [ok |-> key \/ creds,
   method |-> IF key THEN "api_key" ELSE IF token THEN "oauth_token"
              ELSE IF creds THEN "subscription" ELSE "none",
   ignores |-> key /\ (token \/ creds)]

(* What check_auth makes of what it has found; `ignores` is the remark     *)
(* that other credentials are present but will be ignored.                 *)
AuthStatus(key, token, creds) ==
  [ok |-> key \/ token \/ creds,
   method |-> IF key THEN "api_key" ELSE IF token THEN "oauth_token"
              ELSE IF creds THEN "subscription" ELSE "none",
   ignores |-> key /\ (token \/ creds)]

(* CLAUDE_CONFIG_DIR is not looked at.                                     *)
MutantDirContent(e, f) == f.home

(* default_credentials_dir does not strip.                                 *)
DirContent(e, f) ==
  CASE e.configDir = "unset" -> f.home
    [] e.configDir \in {"blank", "padded"} -> f.literal
    [] e.configDir = "set" -> f.override

(* The findings of check_env.                                              *)
CheckEnv(e, f) ==
  [keyWarning |-> e.apiKey # "unset",
   tokenInUse |-> e.oauthToken # "unset",
   dirFound   |-> DirContent(e, f) # "absent"]

-----------------------------------------------------------------------------
(* The credentials there are, and the one the CLI would use.               *)
Available(e, f) ==
  {"none"} \cup (IF Stripped(e.apiKey) THEN {"api_key"} ELSE {})
           \cup (IF Stripped(e.oauthToken) THEN {"oauth_token"} ELSE {})
           \cup (IF f[ConfigDir(e)] = "credentials" THEN {"subscription"} ELSE {})

Winner(e, f) ==
  Precedence[CHOOSE i \in DOMAIN Precedence :
               /\ Precedence[i] \in Available(e, f)
               /\ \A j \in 1..i-1 : Precedence[j] \notin Available(e, f)]

NoStatus == [ok |-> FALSE, method |-> "none", ignores |-> FALSE]

Init ==
  /\ env \in Environments /\ files \in Files
  /\ pc = "idle"
  /\ apiKey = FALSE /\ oauthToken = FALSE /\ dir = "home" /\ present = FALSE
  /\ status = NoStatus
  /\ winners = {} /\ changed = {}

(* check_auth up to its await ...                                          *)
CheckAuth ==
  /\ pc = "idle"
  /\ pc' = "looking"
  /\ apiKey' = Stripped(env.apiKey)
  /\ oauthToken' = Stripped(env.oauthToken)
  /\ dir' = ConfigDir(env)
  /\ winners' = {Winner(env, files)}
  /\ UNCHANGED <<env, files, present, status, changed>>

(* ... the worker thread's look for the file ...                           *)
LookForFile ==
  /\ pc = "looking"
  /\ pc' = "looked"
  /\ present' = (files[dir] = "credentials")
  /\ UNCHANGED <<env, files, apiKey, oauthToken, dir, status, history>>

(* The token is read after the await.                                      *)
MutantReport ==
  /\ pc = "looked"
  /\ pc' = "done"
  /\ status' = AuthStatus(apiKey, Stripped(env.oauthToken), present)
  /\ UNCHANGED <<env, files, locals, history>>

(* ... and the rest.                                                       *)
Report ==
  /\ pc = "looked"
  /\ pc' = "done"
  /\ status' = AuthStatus(apiKey, oauthToken, present)
  /\ UNCHANGED <<env, files, locals, history>>

(* Meanwhile somebody sets or unsets a variable, or logs in or out.        *)
Changes(what) ==
  /\ pc \in {"looking", "looked"}
  /\ winners' = winners \cup {Winner(env', files')}
  /\ changed' = changed \cup {what}
  /\ UNCHANGED <<pc, locals, status>>

ChangeEnvironment ==
  /\ \E v \in DOMAIN env, value \in Values : env' = [env EXCEPT ![v] = value]
  /\ UNCHANGED files
  /\ Changes("environment")

ChangeFiles ==
  /\ \E d \in Dirs, content \in {"absent", "empty", "credentials"} :
       files' = [files EXCEPT ![d] = content]
  /\ UNCHANGED env
  /\ Changes("files")

Done == pc = "done" /\ UNCHANGED vars

Next == CheckAuth \/ LookForFile \/ Report \/ ChangeEnvironment \/ ChangeFiles \/ Done

Spec == Init /\ [][Next]_vars

-----------------------------------------------------------------------------
(* The types, and that a status names a method exactly when it is ok.      *)
TypeOK ==
  /\ env \in Environments /\ files \in Files
  /\ pc \in {"idle", "looking", "looked", "done"}
  /\ apiKey \in BOOLEAN /\ oauthToken \in BOOLEAN
  /\ dir \in Dirs /\ present \in BOOLEAN
  /\ status \in [ok : BOOLEAN, method : Methods, ignores : BOOLEAN]
  /\ status.ok <=> status.method # "none"
  /\ winners \subseteq Methods /\ changed \subseteq {"environment", "files"}

(* check_auth's docstring: the CLI's own order of precedence.  Although    *)
(* what it reports is read at two moments, it was right at one moment of   *)
(* the call, unless both the environment and the files have changed; and   *)
(* when nothing has, it tells of the credentials the key overrides.        *)
ReportWasRight ==
  pc = "done" =>
    /\ changed # {"environment", "files"} => status.method \in winners
    /\ changed = {} =>
         (status.ignores <=> /\ status.method = "api_key"
                             /\ Available(env, files) # {"none", "api_key"})

(* The doctor and check_auth agree on the environment and the state of the *)
(* files: the warning comes when runs will be billed by the key, and no    *)
(* subscription is found in a directory reported missing.  They differ on  *)
(* white space, which only check_auth strips: a blank key or token is one  *)
(* for the doctor alone, and a blank or padded CLAUDE_CONFIG_DIR is two    *)
(* directories.                                                            *)
DoctorAgrees ==
  LET found == CheckEnv(env, files)
      winner == Winner(env, files)
  IN /\ env.apiKey # "blank" => (found.keyWarning <=> winner = "api_key")
     /\ env.oauthToken # "blank" /\ winner = "oauth_token" => found.tokenInUse
     /\ env.configDir \notin {"blank", "padded"} /\ winner = "subscription" => found.dirFound
=============================================================================
