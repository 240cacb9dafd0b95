------------------------------ MODULE ControlPanel ------------------------------
(***************************************************************************)
(* The dashboard and the processes it means to control.  scripts/start.ts  *)
(* starts the internal API, the socket server, the bot and Electron, each  *)
(* a process with an AdminController and a RealtimeServer of its own.  The *)
(* dashboard's buttons become requests to the API, and what the socket     *)
(* server emits is forwarded to its window.                                *)
(*                                                                         *)
(* Today neither server comes to listen: both call a method that does not  *)
(* exist before they do, nothing calls startAPIServer, and a POSIX shell   *)
(* does not take the lines that start.ts gives it for the socket server    *)
(* and the bot.  They are started here as they are meant to be, and        *)
(* Listeners are those that would listen.  As botClient is never the       *)
(* API's, what the program does once it has shut the bot down (the API     *)
(* exits, and the dashboard for a restart) is left out.                    *)
(***************************************************************************)
EXTENDS Integers, Sequences, FiniteSets

CONSTANTS
    Listeners,  \* which of "api" and "socket" come to listen
    Buttons,    \* the buttons pressed: of "stop", "restart", "toggle"
    Darwin      \* the platform is macOS

ASSUME PanelAssumption ==
    /\ Listeners \subseteq {"api", "socket"}
    /\ Buttons \subseteq {"stop", "restart", "toggle"}
    /\ Darwin \in BOOLEAN

VARIABLES
    next,         \* the process start.ts starts next
    ending,       \* how far its cleanup is
    up,           \* processes that run
    listening,    \* servers that listen
    discord,      \* the bot's connection
    botClient,    \* processes whose AdminController has a client
    maintenance,  \* the API's maintenanceMode.enabled
    window,       \* the dashboard's window is open
    socketClient, \* its connection to the socket server
    asked,        \* how far each of its requests is
    answer,       \* the mode in the answer to its last toggle
    modeShown, statusShown, \* what its window says
    heard         \* the last maintenance_mode sent to it

launchVars == <<next, ending>>
botVars == <<discord, botClient>>
shownVars == <<modeShown, statusShown, heard>>
requestVars == <<asked, answer>>
panelVars == <<launchVars, up, listening, botVars, maintenance, window, socketClient,
               requestVars, shownVars>>

Services == <<"api", "socket", "bot", "electron">>
Processes == {Services[i] : i \in DOMAIN Services}
Requests == Buttons \cup {"status"}

-----------------------------------------------------------------------------
\* A page as index.html has it, without a request under way
FreshPage ==
    /\ modeShown' = FALSE /\ statusShown' = "none" /\ heard' = "none"
    /\ asked' = [r \in Requests |-> "idle"] /\ answer' = FALSE

PanelInit ==
    /\ next = 1 /\ ending = "no" /\ up = {} /\ listening = {}
    /\ discord = "off" /\ botClient = {} /\ maintenance = FALSE
    /\ window = FALSE /\ socketClient = "off"
    /\ asked = [r \in Requests |-> "idle"] /\ answer = FALSE
    /\ modeShown = FALSE /\ statusShown = "none" /\ heard = "none"

\* what is lost with processes: all they knew
Die(dead) ==
    /\ up' = up \ dead /\ listening' = listening \ dead
    /\ botClient' = botClient \ dead
    /\ discord' = IF "bot" \in dead THEN "off" ELSE discord
    /\ maintenance' = IF "api" \in dead THEN FALSE ELSE maintenance
    /\ IF "electron" \in dead
       THEN window' = FALSE /\ socketClient' = "off" /\ FreshPage
       ELSE /\ socketClient' = IF "socket" \in dead /\ socketClient = "connected"
                               THEN "connecting" ELSE socketClient
            /\ UNCHANGED <<window, requestVars, shownVars>>

-----------------------------------------------------------------------------
(* scripts/start.ts.                                                       *)

\* every two seconds the next one: at most one in the second between cleanup
\* and exit, and nobody kills that one
StartNext ==
    /\ next \in DOMAIN Services /\ ending \in {"no", "cleaning"}
    /\ next' = next + 1
    /\ up' = up \cup {Services[next]}
    /\ discord' = IF Services[next] = "bot" THEN "login" ELSE discord
    /\ ending' = IF ending = "cleaning" THEN "late" ELSE ending
    /\ UNCHANGED <<listening, botClient, maintenance, window, socketClient,
                   requestVars, shownVars>>

\* cleanup: a signal, or a process that cannot be started.  What it kills are
\* the shells the processes were started in, which may leave them running.
Cleanup ==
    /\ ending # "gone"
    /\ ending' = IF ending = "no" THEN "cleaning" ELSE ending
    /\ \E dead \in SUBSET up : Die(dead)
    /\ UNCHANGED next

LauncherExits ==
    /\ ending \in {"cleaning", "late"} /\ ending' = "gone"
    /\ UNCHANGED <<next, up, listening, botVars, maintenance, window, socketClient,
                   requestVars, shownVars>>

\* nothing starts a process again that has ended
ProcessEnds(p) ==
    /\ p \in up \ {"electron"}
    /\ Die({p})
    /\ UNCHANGED launchVars

\* the end of Electron is meant to be the end of all, while start.ts is there
ElectronEnds ==
    /\ \E dead \in IF ending = "gone" THEN {{}} ELSE SUBSET up : Die(dead \cup {"electron"})
    /\ ending' = IF ending = "no" THEN "cleaning" ELSE ending
    /\ UNCHANGED next

QuitElectron == "electron" \in up /\ ElectronEnds

-----------------------------------------------------------------------------
(* The servers, the bot, and what their AdminControllers emit.             *)

\* startAPIServer, startRealtimeServer
Listens(p) ==
    /\ p \in (up \cap Listeners) \ listening
    /\ listening' = listening \cup {p}
    /\ UNCHANGED <<launchVars, up, botVars, maintenance, window, socketClient,
                   requestVars, shownVars>>

\* startDiscordBot: the client is registered if its ready event comes after
\* login has resolved; otherwise nobody listens to it
BotReady(registers) ==
    /\ discord = "login" /\ discord' = "ready"
    /\ botClient' = IF registers THEN botClient \cup {"bot"} ELSE botClient
    /\ UNCHANGED <<launchVars, up, listening, maintenance, window, socketClient,
                   requestVars, shownVars>>

\* getIO: null but in the process of the socket server
HasIO(p) == p = "socket" /\ p \in listening

Mode(on) == IF on THEN "on" ELSE "off"

\* an event that process p emits arrives in the dashboard's window
Arrives(p) == HasIO(p) /\ socketClient = "connected" /\ window

\* emitBotStatus, every five seconds once the client is registered
EmitBotStatus ==
    /\ "bot" \in botClient
    /\ statusShown' = IF Arrives("bot") THEN "online" ELSE statusShown
    /\ UNCHANGED <<launchVars, up, listening, botVars, maintenance, window,
                   socketClient, requestVars, modeShown, heard>>

\* setMaintenanceMode, in the API's process
SetMaintenanceMode(on) ==
    /\ maintenance' = on
    /\ heard' = IF Arrives("api") THEN Mode(on) ELSE heard

\* POST /internal/admin/maintenance, by somebody on the same host
SetMaintenance(on) ==
    /\ "api" \in listening
    /\ SetMaintenanceMode(on)
    /\ UNCHANGED <<launchVars, up, listening, botVars, window, socketClient,
                   requestVars, modeShown, statusShown>>

-----------------------------------------------------------------------------
(* The dashboard.                                                          *)

\* createWindow, when Electron is ready and on activate; here, once the
\* requests of the last window are over
CreateWindow ==
    /\ "electron" \in up /\ ~window /\ \A r \in Requests : asked[r] = "idle"
    /\ window' = TRUE /\ socketClient' = "connecting"
    /\ FreshPage
    /\ UNCHANGED <<launchVars, up, listening, botVars, maintenance>>

\* window-all-closed
CloseWindow ==
    /\ window
    /\ IF Darwin
       THEN /\ window' = FALSE /\ socketClient' = "off"
            /\ UNCHANGED <<launchVars, up, listening, botVars, maintenance, requestVars,
                           shownVars>>
       ELSE ElectronEnds

\* connectToSocketServer, and the client's reconnection
Connection(from, to) ==
    /\ socketClient = from /\ socketClient' = to
    /\ to = "connected" => "socket" \in listening
    /\ UNCHANGED <<launchVars, up, listening, botVars, maintenance, window,
                   requestVars, shownVars>>

Becomes(r, to) == asked' = [asked EXCEPT ![r] = to]

\* handleStopBot, handleRestartBot, handleToggleMaintenance disable their
\* button; updateStatus and updateStats ask on a timer
Ask(r) ==
    /\ window /\ asked[r] = "idle"
    /\ Becomes(r, "asked")
    /\ UNCHANGED <<launchVars, up, listening, botVars, maintenance, window, socketClient,
                   answer, shownVars>>

\* shutdownBot: it throws without a client
ShutdownBot(p) ==
    /\ botClient' = botClient \ {p}
    /\ discord' = IF p = "bot" THEN "off" ELSE discord

\* the API's route
Serve(r) ==
    /\ asked[r] = "asked" /\ "api" \in listening
    /\ CASE r \in {"stop", "restart"} ->
                /\ ShutdownBot("api")
                /\ Becomes(r, IF "api" \in botClient THEN "ok" ELSE "failed")
                /\ UNCHANGED <<maintenance, answer, heard>>
         [] r = "toggle" ->
                /\ SetMaintenanceMode(~maintenance) /\ answer' = ~maintenance
                /\ Becomes(r, "ok")
                /\ UNCHANGED botVars
         [] r = "status" ->
                /\ \E result \in {"ok", "failed"} : Becomes(r, result)
                /\ UNCHANGED <<botVars, maintenance, answer, heard>>
    /\ UNCHANGED <<launchVars, up, listening, window, socketClient, modeShown,
                   statusShown>>

\* fetchAPI throws: nobody listens, or nobody is left to answer
Unanswered(r) ==
    /\ asked[r] \in {"asked", "ok"} /\ "api" \notin listening
    /\ Becomes(r, "failed")
    /\ UNCHANGED <<launchVars, up, listening, botVars, maintenance, window, socketClient,
                   answer, shownVars>>

\* the answer in the window, if there still is one: a bot that has been
\* stopped leaves its button disabled
Shown(r) ==
    /\ asked[r] \in {"ok", "failed"}
    /\ r \in {"stop", "restart"} => asked[r] = "failed" \/ ~window
    /\ Becomes(r, "idle")
    /\ modeShown' = IF r = "toggle" /\ asked[r] = "ok" /\ window THEN answer ELSE modeShown
    /\ statusShown' = IF r = "status" /\ asked[r] = "ok" /\ window
                      THEN IF "api" \in botClient THEN "online" ELSE "offline"
                      ELSE statusShown
    /\ UNCHANGED <<launchVars, up, listening, botVars, maintenance, window, socketClient,
                   answer, heard>>

PanelNext ==
    \/ StartNext \/ Cleanup \/ LauncherExits \/ QuitElectron
    \/ \E p \in Processes : ProcessEnds(p) \/ Listens(p)
    \/ \E registers \in BOOLEAN : BotReady(registers)
    \/ EmitBotStatus \/ CreateWindow \/ CloseWindow
    \/ \E on \in BOOLEAN : SetMaintenance(on)
    \/ Connection("connecting", "connected") \/ Connection("connected", "connecting")
    \/ \E r \in Requests : Ask(r) \/ Serve(r) \/ Unanswered(r) \/ Shown(r)

-----------------------------------------------------------------------------
PanelTypeOK ==
    /\ next \in 1 .. 5 /\ ending \in {"no", "cleaning", "late", "gone"}
    /\ up \subseteq Processes /\ listening \subseteq up \cap Listeners
    /\ discord \in {"off", "login", "ready"} /\ botClient \subseteq {"bot"}
    /\ maintenance \in BOOLEAN /\ window \in BOOLEAN
    /\ socketClient \in {"off", "connecting", "connected"}
    /\ asked \in [Requests -> {"idle", "asked", "ok", "failed"}]
    /\ answer \in BOOLEAN /\ modeShown \in BOOLEAN
    /\ statusShown \in {"none", "online", "offline"}
    /\ heard \in {"none", "on", "off"}

\* "Dashboard receives: maintenance_mode - Maintenance mode changes": a change
\* in the API is sent to the window of a connected dashboard.
\* AdminController.setMaintenanceMode, RealtimeServer.getIO, electronMain.
ChangesReachDashboard ==
    [][maintenance' # maintenance /\ "api" \in up' /\ socketClient = "connected" /\ window
       => heard' = Mode(maintenance')]_panelVars
=============================================================================
