------------------------------- MODULE Systemd -------------------------------
(***************************************************************************)
(* The systemd backend of the agent (src/agent/systemd/manager.go): the    *)
(* unit and environment files it writes and the systemctl commands it      *)
(* runs.  What systemd does on a command is external to the repository and *)
(* is modelled from its manual:                                            *)
(*  - "start" leaves a running unit alone; "restart" replaces it;          *)
(*  - a process is started with the unit file as last LOADED and with the  *)
(*    environment file as it is on disk at that moment;                    *)
(*  - "enable" and "disable" reload all unit files, as daemon-reload does. *)
(* A file, a loaded definition and a process are represented by the        *)
(* content they were made from, or None.                                   *)
(***************************************************************************)
EXTENDS Naturals

CONSTANTS Key, UnitText, EnvText

None == "none"

\* One unit: its files, the definition systemd has loaded, the process it
\* runs (unit text and environment it was started with), whether the process
\* ended by itself, and whether the unit is enabled.
Service == [unit: UnitText \cup {None}, env: EnvText \cup {None},
            loaded: UnitText \cup {None},
            procUnit: UnitText \cup {None}, procEnv: EnvText \cup {None},
            died: BOOLEAN, enabled: BOOLEAN]

NoService == [unit |-> None, env |-> None, loaded |-> None, procUnit |-> None,
              procEnv |-> None, died |-> FALSE, enabled |-> FALSE]

Running(s) == s.procUnit # None
Stopped(s) == [s EXCEPT !.procUnit = None, !.procEnv = None, !.died = FALSE]

\* A unit that is not loaded yet is loaded when it is first referred to.
Definition(s) == IF s.loaded = None THEN s.unit ELSE s.loaded
Launched(s) ==
    [s EXCEPT !.loaded = Definition(s), !.procUnit = Definition(s), !.procEnv = s.env, !.died = FALSE]
Started(s) == IF Running(s) THEN s ELSE Launched(s)

\* A reload forgets the definition of a removed file once nothing runs.
Reloaded(s) == [s EXCEPT !.loaded = IF s.unit = None /\ Running(s) THEN s.loaded ELSE s.unit]

DaemonReload(host) == [k \in Key |-> Reloaded(host[k])]

EnableAndStart(host, k) ==
    LET h == DaemonReload(host)
    IN  [h EXCEPT ![k] = [Started(h[k]) EXCEPT !.enabled = TRUE]]

Restart(host, k) == [host EXCEPT ![k] = Launched(host[k])]

StopAndDisable(host, k) ==
    LET h == [host EXCEPT ![k] = [Stopped(host[k]) EXCEPT !.enabled = FALSE]]
    IN  DaemonReload(h)

\* systemctl refuses a unit without a file or definition ("does not exist").
Exists(s) == s.unit # None
Restartable(s) == Definition(s) # None

\* EnsureUnitWithDetails and RemoveUnitWithDetails, file by file; each file
\* is replaced atomically by a rename.
WriteUnit(host, k, text) == [host EXCEPT ![k].unit = text]
WriteEnv(host, k, text) == [host EXCEPT ![k].env = text]
RemoveFiles(host, k) == [host EXCEPT ![k].unit = None, ![k].env = None]
RemoveUnitFile(host, k) == [host EXCEPT ![k].unit = None]

\* A reboot ends every process and starts the enabled units from their files.
Boot(s) ==
    LET down == [Stopped(s) EXCEPT !.loaded = s.unit]
    IN  IF s.enabled /\ s.unit # None THEN Launched(down) ELSE down

Clean(s) == s.unit = None /\ s.env = None /\ ~Running(s) /\ ~s.enabled
==============================================================================
