---------------------------- MODULE ProcessShell ----------------------------
(***************************************************************************)
(* The process around the app (src/lib.rs) and its configuration: what is  *)
(* read at startup and again on SIGHUP (src/ui/config.rs, App::poll_reload *)
(* and App::reload_config), how SIGHUP is told from a hangup               *)
(* (lib.rs::sighup), and what is left behind when the process ends.        *)
(*                                                                         *)
(* Three actors interleave: the program, one step per file it reads or per *)
(* call that another actor can come between; the signal, delivered to it   *)
(* at any moment; and the world, which edits files, sends SIGHUP and takes *)
(* the terminal away.  The app is seen from outside: a pass of its loop    *)
(* polls for a reload and takes input; the rest is BrowseModel's.          *)
(***************************************************************************)
EXTENDS Invocation, ConfigOverlay, CommandTable, FiniteSets

CONSTANTS Starts,         \* [line, env] it may be started with
          Disks,          \* what may be there at the start: dir -> [access, files]
          Sources,        \* the names a command file may have, in the order of names
          Edits,          \* <<dir, source, content>> and <<dir, access>> that may be made
          MaxEdits, MaxSignals, None

Accesses == {"missing", "open", "unreadable"}

\* What a command file may hold, and what is known of a directory.
Contents == {Absent} \union {edit[3] : edit \in {e \in Edits : Len(e) = 3}}
  \union UNION {UNION {{there[d].files[s] : s \in ToSet(Sources)} : d \in DOMAIN there} : there \in Disks}
Directory == [access : Accesses, files : [ToSet(Sources) -> Contents]]

ASSUME ProcessAssumption ==
  /\ Sources \in Seq(ToSet(Sources))
  /\ \A start \in Starts : start.line \in Seq(ToSet(start.line))
  /\ \A there \in Disks : \A d \in DOMAIN there : there[d] \in Directory
  /\ \A edit \in Edits : Len(edit) = 3 \/ (Len(edit) = 2 /\ edit[2] \in Accesses)
  /\ \A content \in Contents : IsRule(content) => Described(content) \in [1..4 -> Texts]
  /\ None \notin {"ok", "replaced", "usage"} \union Seq(Contents)

VARIABLES pc,
          line, env,             \* given
          cli,                   \* parsed
          disk, edits,
          builder, warnings,     \* of the load under way
          dirs, files,           \* of it, left to read
          matcher, config_warnings, reload_diagnostics,
          published, had_terminal, installed, reload_requested,    \* lib.rs::sighup
          sighup, signals, terminal,                               \* the system's
          session, action, stdout, stderr, exit_code,
          \* history: the load under way, the load in force and by which
          \* policy, the last reload, and whether files changed since the last signal
          reading, inforce, last, edited

given == <<line, env>>
load == <<builder, warnings, dirs, files, reading>>
app == <<matcher, config_warnings, reload_diagnostics>>
handler == <<published, had_terminal, installed>>
world == <<disk, edits, signals, terminal, edited>>
output == <<stdout, stderr, exit_code>>
outside == <<session, action>>
vars == <<pc, given, cli, load, app, handler, reload_requested, sighup, world, outside, output,
          inforce, last>>

Alive == pc # "ended"
Dirs(d) == IF d \in DOMAIN disk THEN disk[d].access ELSE "missing"

ProcessInit ==
  /\ pc = "parse" /\ cli = None
  /\ \E start \in Starts : line = start.line /\ env = start.env
  /\ disk \in Disks
  /\ edits = 0 /\ signals = 0 /\ edited = TRUE
  /\ builder = NewBuilder /\ warnings = <<>> /\ dirs = <<>> /\ files = <<>> /\ reading = <<>>
  /\ matcher = None /\ config_warnings = <<>> /\ reload_diagnostics = <<>>
  /\ published = FALSE /\ had_terminal = FALSE /\ installed = FALSE
  /\ reload_requested = FALSE /\ sighup = FALSE
  /\ terminal \in {"alive", "not_stdin"}
  /\ session = None /\ action = None
  /\ stdout = None /\ stderr = <<>> /\ exit_code = None
  /\ inforce = None /\ last = <<>>

-----------------------------------------------------------------------------
(* Ending.  What the process says of it is best effort.                    *)

Exits(code) == pc' = "ended" /\ exit_code' = code /\ session' = None

Ends(code) ==
  /\ Exits(code)
  /\ UNCHANGED <<given, cli, load, app, handler, reload_requested, sighup, world, action,
                 inforce, last>>

Fails(code) == Ends(code) /\ UNCHANGED <<stdout, stderr>>

error(cause) == <<"error", cause>>

\* RunFailure::Report, whose report may not get through.
write_error_report(cause) ==
  /\ Ends("failed") /\ UNCHANGED stdout
  /\ stderr' \in {stderr, Append(stderr, error(cause))}

\* What is wrong with the words or with an option is the status only once it is said.
write_cli_error(cause) ==
  /\ UNCHANGED stdout
  /\ \/ Ends("usage") /\ stderr' = Append(stderr, error(cause))
     \/ Ends("failed") /\ UNCHANGED stderr

report_cli_error(verdict) ==
  \/ verdict = "refused" /\ write_cli_error("words")
  \/ verdict = "shown" /\ Ends("ok") /\ stdout' = verdict /\ UNCHANGED stderr
  \/ verdict = "shown" /\ Fails("failed")

(* A panic: the hook puts a report in its directory if it can, and says where, or why not. *)

report_dir == IF env.crash_dir \in {Unset, ""} THEN "temp" ELSE env.crash_dir
save_and_describe(saved) == IF saved THEN <<"crash report", report_dir>> ELSE <<"no crash report">>

Panics ==
  /\ Ends("panic") /\ UNCHANGED stdout
  /\ \E saved \in BOOLEAN : stderr' \in {stderr, Append(stderr, save_and_describe(saved))}

(* Loading: matcher_config_dirs, then load_from_dirs or its lenient twin.  *)

ReadsFrom(overlay) ==
  /\ builder' = NewBuilder /\ warnings' = <<>> /\ files' = <<>> /\ reading' = <<>>
  /\ dirs' = overlay

BeginLoad(for) == ReadsFrom(matcher_config_dirs(env, for))
EndLoad == ReadsFrom(<<>>)

Parse ==
  /\ pc = "parse"
  /\ IF parse_from(line) = "cli"
       THEN /\ pc' = "load" /\ cli' = Cli(line) /\ BeginLoad(cli')
            /\ UNCHANGED <<given, app, handler, reload_requested, sighup, world, outside, output,
                           inforce, last>>
       ELSE report_cli_error(parse_from(line))

Loading == pc \in {"load", "reload"}
Strict == cli.command = "ListCommands"

\* toml_files_in: the names are taken at once and sorted, the files read later.
Listed(d) == LET there == InOrder({i \in DOMAIN Sources : disk[d].files[Sources[i]] # Absent})
             IN [i \in DOMAIN there |-> <<d, Sources[there[i]]>>]

Refuse(diagnostic) == warnings' = Append(warnings, diagnostic)

EnterDir ==
  /\ Loading /\ files = <<>> /\ dirs # <<>>
  /\ dirs' = Tail(dirs)
  /\ LET d == Head(dirs)
     IN CASE Dirs(d) = "missing" -> UNCHANGED <<builder, files, reading, warnings>>
          [] Dirs(d) = "open" ->
               /\ files' = Listed(d)
               /\ builder' = start_layer(builder) /\ UNCHANGED <<warnings, reading>>
          [] Dirs(d) = "unreadable" ->
               /\ Refuse(<<d>>) /\ reading' = Append(reading, Read(Len(dirs'), <<d>>, Absent))
               /\ builder' = start_layer(builder) /\ UNCHANGED files
  /\ UNCHANGED <<pc, given, cli, app, handler, reload_requested, sighup, world, outside, output,
                 inforce, last>>

ContentNow(file) ==
  IF Dirs(file[1]) = "open" THEN disk[file[1]].files[file[2]] ELSE Absent

ReadFile ==
  /\ Loading /\ files # <<>>
  /\ LET file == Head(files)  content == ContentNow(file)
     IN /\ files' = Tail(files)
        /\ builder' = add_file(builder, content)
        /\ reading' = Append(reading, Read(Len(dirs), file, content))
        /\ IF Accepts(builder, content) THEN UNCHANGED warnings ELSE Refuse(file)
  /\ UNCHANGED <<pc, given, cli, dirs, app, handler, reload_requested, sighup, world, outside,
                 output, inforce, last>>

\* A strict load is over at its first error.
LoadFails ==
  /\ pc = "load" /\ Strict /\ warnings # <<>>
  /\ write_error_report(warnings[1])

LoadedBy(policy) == [by |-> policy, reading |-> reading]

Loaded == Loading /\ files = <<>> /\ dirs = <<>> /\ (Strict => warnings = <<>>)

ListCommands ==
  /\ pc = "load" /\ Loaded /\ Strict
  /\ \/ write_error_report("stdout")
     \/ Ends("ok") /\ UNCHANGED stderr /\ stdout' = write_commands(builder.commands)

StartLoaded ==
  /\ pc = "load" /\ Loaded /\ ~Strict
  /\ matcher' = builder.commands /\ config_warnings' = warnings /\ inforce' = LoadedBy("start")
  /\ pc' = "keys" /\ EndLoad
  /\ UNCHANGED <<given, cli, reload_diagnostics, handler, reload_requested, sighup, world,
                 outside, output, last>>

-----------------------------------------------------------------------------
(* From the rules to the loop.                                             *)

Goes(from, to) == pc = from /\ pc' = to

LoadKeybindings ==
  \/ /\ Goes("keys", "options")
     /\ UNCHANGED <<given, cli, load, app, handler, reload_requested, sighup, world, outside,
                    output, inforce, last>>
  \/ /\ pc = "keys" /\ keybinding_paths(env) # <<>>
     /\ write_error_report(keybinding_paths(env)[1])

StartSession ==
  /\ pc = "options"
  /\ IF DiscoveryUsageError(cli) = "none"
       THEN /\ pc' = "publish" /\ session' = discovery_options(cli)
            /\ UNCHANGED <<given, cli, load, app, handler, reload_requested, sighup, world, action,
                           output, inforce, last>>
       ELSE write_cli_error(DiscoveryUsageError(cli))

(* sighup::install, in its three steps.  Only standard input is looked at: *)
(* when it is redirected, the terminal the keys are read from is not seen. *)
terminal_is_alive == terminal = "alive"
has_terminal == terminal \in {"alive", "not_stdin"}

Publish == Goes("publish", "probe") /\ published' = TRUE /\ UNCHANGED <<had_terminal, installed>>
Probe == Goes("probe", "handle") /\ had_terminal' = terminal_is_alive /\ UNCHANGED <<published, installed>>
Handle == Goes("handle", "enter") /\ installed' = TRUE /\ UNCHANGED <<published, had_terminal>>

Install ==
  /\ Publish \/ Probe \/ Handle
  /\ UNCHANGED <<given, cli, load, app, reload_requested, sighup, world, outside, output, inforce, last>>

\* ratatui::run sets the terminal up, and panics when it cannot.
Enter ==
  /\ pc = "enter"
  /\ IF has_terminal
       THEN /\ pc' = "poll"
            /\ UNCHANGED <<given, cli, load, app, handler, reload_requested, sighup, world, outside,
                           output, inforce, last>>
       ELSE Panics

-----------------------------------------------------------------------------
(* The loop: App::poll_reload, then input until the next pass.             *)

PollReload ==
  /\ pc = "poll"
  /\ reload_requested' = FALSE
  /\ IF reload_requested
       THEN pc' = "reload" /\ BeginLoad(cli)
       ELSE pc' = "input" /\ UNCHANGED load
  /\ UNCHANGED <<given, cli, app, handler, sighup, world, outside, output, inforce, last>>

Replace(candidate) ==
  matcher' = candidate /\ reload_diagnostics' = <<>> /\ inforce' = LoadedBy("reload")
Reject(diagnostics) == reload_diagnostics' = diagnostics /\ UNCHANGED <<matcher, inforce>>

\* reload_matcher_from builds nothing unless nothing was refused.
reload_config ==
  /\ Goes("reload", "input") /\ Loaded
  /\ IF warnings = <<>> THEN Replace(builder.commands) ELSE Reject(warnings)
  /\ last' = reading /\ EndLoad
  /\ UNCHANGED <<given, cli, config_warnings, handler, sighup, world, outside, output>>

\* Mutant: the reload answers every request there is by now.
FinishServesAll == reload_config /\ reload_requested' = FALSE

FinishReload == reload_config /\ UNCHANGED reload_requested

\* Nothing is ever read again from a terminal that is gone.
Input ==
  /\ has_terminal
  /\ \/ Goes("input", "poll") /\ UNCHANGED action
     \/ Goes("input", "take") /\ action' \in {None, "handoff"}
  /\ UNCHANGED <<given, cli, load, app, handler, reload_requested, sighup, world, session, output,
                 inforce, last>>

\* Drawing or reading fails: `?` returns past everything that is printed below.
InputFails == pc = "input" /\ write_error_report("terminal")

-----------------------------------------------------------------------------
(* The way out: take the diagnostics, drop the app, print, hand off.       *)

DropApp ==
  /\ Goes("take", "report") /\ session' = None
  /\ UNCHANGED <<given, cli, load, app, handler, reload_requested, sighup, world, action, output,
                 inforce, last>>

said(label, diagnostics) == [i \in DOMAIN diagnostics |-> <<label, diagnostics[i]>>]

diagnostics_said == said("warning", config_warnings) \o said("reload rejected", reload_diagnostics)

Report ==
  /\ Goes("report", "exec")
  /\ stderr' = diagnostics_said
  /\ UNCHANGED <<given, cli, load, app, handler, reload_requested, sighup, world, outside, stdout,
                 exit_code, inforce, last>>

\* Some of it may get through.
ReportFails ==
  /\ pc = "report" /\ Ends("failed") /\ UNCHANGED stdout
  /\ \E n \in 0..Len(diagnostics_said) : stderr' = SubSeq(diagnostics_said, 1, n)

\* plumber::exec::exec replaces the process, or fails to.
Exec == \/ pc = "exec" /\ action = None /\ Fails("ok")
        \/ pc = "exec" /\ action # None /\ Fails("replaced")
        \/ pc = "exec" /\ action # None /\ write_error_report(action)

-----------------------------------------------------------------------------
(* The signal.  Until the handler is there its default ends the process.   *)

\* Mutant: every SIGHUP asks for a reload.
AlwaysAReload ==
  /\ sighup' = FALSE
  /\ reload_requested' = published /\ UNCHANGED <<pc, exit_code, session>>

on_sighup ==
  /\ sighup' = FALSE
  /\ IF had_terminal /\ ~terminal_is_alive
       THEN Exits("hangup") /\ UNCHANGED reload_requested
       ELSE reload_requested' = published /\ UNCHANGED <<pc, exit_code, session>>

Deliver ==
  /\ Alive /\ sighup
  /\ IF installed THEN on_sighup
       ELSE sighup' = FALSE /\ Exits("hangup") /\ UNCHANGED reload_requested
  /\ UNCHANGED <<given, cli, load, app, handler, world, action, stdout, stderr, inforce, last>>

(* The world.                                                              *)

Edit ==
  /\ Alive /\ edits < MaxEdits
  /\ \E edit \in Edits :
       disk' = IF Len(edit) = 2 THEN [disk EXCEPT ![edit[1]].access = edit[2]]
               ELSE [disk EXCEPT ![edit[1]].files[edit[2]] = edit[3]]
  /\ disk' # disk
  /\ edits' = edits + 1 /\ edited' = TRUE
  /\ UNCHANGED <<pc, given, cli, load, app, handler, reload_requested, sighup, signals, terminal,
                 outside, output, inforce, last>>

AskReload ==
  /\ Alive /\ signals < MaxSignals
  /\ sighup' = TRUE /\ signals' = signals + 1 /\ edited' = FALSE
  /\ UNCHANGED <<pc, given, cli, load, app, handler, reload_requested, disk, edits, terminal,
                 outside, output, inforce, last>>

HangUp ==
  /\ Alive /\ has_terminal
  /\ terminal' = IF terminal_is_alive THEN "gone" ELSE "lost"
  /\ sighup' = TRUE
  /\ UNCHANGED <<pc, given, cli, load, app, handler, reload_requested, disk, edits, signals, edited,
                 outside, output, inforce, last>>

-----------------------------------------------------------------------------
Program ==
  \/ Parse \/ EnterDir \/ ReadFile \/ LoadFails \/ ListCommands \/ StartLoaded
  \/ LoadKeybindings \/ StartSession \/ Install \/ Enter
  \/ PollReload \/ FinishReload
  \/ DropApp \/ Report \/ ReportFails \/ Exec

User == Input \/ InputFails
World == Edit \/ AskReload \/ HangUp

ProcessNext == Program \/ User \/ Deliver \/ World

\* The program runs and the system delivers; nobody has to press a key.
ProcessSpec == ProcessInit /\ [][ProcessNext]_vars /\ WF_vars(Program) /\ WF_vars(Deliver)

-----------------------------------------------------------------------------
(* The rules in force are those one whole reading declares; after a reload *)
(* it is one in which nothing was refused, and a rejected reload leaves    *)
(* the rules as they were (ui/config.rs, reload_matcher).                  *)
RulesOfOneReading ==
  inforce # None =>
    /\ matcher = Overlay(inforce.reading)
    /\ Errors(inforce.reading) = IF inforce.by = "reload" THEN <<>> ELSE config_warnings

session_was_asked == cli # None /\ cli.command = "Run"

Prints(table, rules) ==
  /\ Len(table) = Len(rules) + 1
  /\ \A i \in DOMAIN rules : \A j \in 1..4 : table[i + 1][j].cell = text(Described(rules[i])[j])

\* What the process says at its end: the warnings of its start and why the last
\* reload was rejected, and list-commands' verdict, which is that of the reload
\* on the same files and asks nothing of discovery (lib.rs, run_invocation).
Verdicts ==
  /\ reload_diagnostics = Errors(last)
  /\ exit_code \in {"ok", "replaced"} /\ session_was_asked =>
       stderr = said("warning", config_warnings) \o said("reload rejected", Errors(last))
  /\ cli # None /\ stdout # None =>
       Errors(reading) = <<>> /\ Prints(stdout, Overlay(reading)) /\ Legible(stdout)
  /\ exit_code = "usage" =>
       /\ stderr # <<>>
       /\ cli = None \/ (session_was_asked /\ matcher # None)
  /\ session # None => ~(session.domain # "local" /\ session.backend = "zeroconf")

OutcomeIsExplained == RulesOfOneReading /\ Verdicts

\* When no signal is on its way or being served, and no file has changed since the
\* last one was sent, the app's rules are those on the disk, or it says why not: a
\* signal during a reload is not lost in it (App::poll_reload).
Settled == pc \in {"poll", "input"} /\ ~reload_requested /\ ~sighup /\ ~edited

\* What a directory holds now, for a layer.
Holds(layer, d) ==
  CASE Dirs(d) = "missing" -> <<>>
    [] Dirs(d) = "open" ->
         [i \in DOMAIN Listed(d) |-> Read(layer, Listed(d)[i], ContentNow(Listed(d)[i]))]
    [] Dirs(d) = "unreadable" -> <<Read(layer, <<d>>, Absent)>>

OnDisk ==
  LET overlay == matcher_config_dirs(env, cli)
  IN FlattenSeq([n \in DOMAIN overlay |-> Holds(Len(overlay) - n, overlay[n])])

SignalsAreHonoured ==
  Settled => /\ reload_diagnostics = Errors(OnDisk)
             /\ Errors(OnDisk) = <<>> => matcher = Overlay(OnDisk)

\* A process whose standard input is a terminal that hangs up ends: none is left
\* reading that dead terminal (lib.rs, on_sighup).  It says nothing of a terminal
\* that was not standard input ("lost"): that hangup is taken for a reload, and
\* the process stays until something else ends it.
HangupEnds == terminal = "gone" ~> ~Alive
=============================================================================
