------------------------------- MODULE MCHost --------------------------------
(* Small instances, for TLC, of what surrounds the automation core: isolated*)
(* plug-in calls, built-in actions, extension sessions, an AI service's     *)
(* drafts, macros, triggers, dashboards, processes and the loading of       *)
(* plug-ins. The initial state chooses the part that moves; the others are  *)
(* parked in one state.                                                     *)
EXTENDS PluginWorker, TransferActions, CommandActions, QuietFolders,
        ExtensionSessions, DraftStream, AnswerStream, MacroReplay, SampledTriggers,
        ScheduleTriggers, Dashboards, AppHost, PluginLoading, TLC

CONSTANTS Parts          \* the parts to explore

VARIABLE part

macroVars == <<recorderVars, replayVars>>
builtinVars == <<transferVars, commandVars, quietVars>>
callsVars == <<workerVars, sessionVars, streamVars, answerVars>>
triggersVars == <<macroVars, sensorVars, clockVars>>
desktopVars == <<dashboardVars, hostVars, loadingVars>>
vars == <<part, callsVars, builtinVars, triggersVars, desktopVars>>

MCQuiet == [k \in Checkers |-> IF k = "k1" THEN 1 ELSE 2]

----------------------------------------------------------------------------
(* Components with many initial states, parked in one.                      *)
ParkSensor ==
  /\ sensor \in BatteryLevel /\ memory = FirstMemory(sensor, Unreadable(FALSE))
  /\ samples = <<Unreadable(FALSE)>> /\ events = <<>>
ParkClock ==
  /\ alarm = [kind |-> "startup", at |-> 1, days |-> {}] /\ started = 0
  /\ polls = <<>> /\ memo = Never /\ rings = <<>>
ParkTransfer ==
  /\ errand = [kind |-> "write", overwrite |-> FALSE, size |-> 1, declared |-> Undeclared]
  /\ target = "none" /\ NothingMoved
ParkAnswer ==
  /\ format = "chat" /\ manner = "post" /\ script = <<Words>> /\ coming = <<>> /\ taken = <<>>
  /\ buffer = <<>> /\ dataLines = <<>> /\ received = <<>> /\ shown = <<>>
  /\ progress = "reading" /\ result = NoAnswer
ParkLoading ==
  /\ NothingScanned /\ mode = "strict" /\ off = FALSE
  /\ disk = [f \in FolderNames |-> NoFolder]
  /\ manifest = NoFiles

MCInit ==
  /\ part \in Parts
  /\ WorkerInit /\ SessionInit /\ StreamInit /\ MacroInit
  /\ part = "macros" \/ ~password
  /\ IF part = "sensors" THEN SensorInit ELSE ParkSensor
  /\ IF part = "clock" THEN ClockInit ELSE ParkClock
  /\ IF part = "transfers" THEN TransferInit ELSE ParkTransfer
  /\ CommandInit /\ QuietInit
  /\ IF part = "answers" THEN AnswerInit ELSE ParkAnswer
  /\ DashboardInit /\ HostInit
  /\ IF part = "loading" THEN LoadingInit ELSE ParkLoading

----------------------------------------------------------------------------
Only(p, A) == part = p /\ A /\ UNCHANGED part
Calling(p, A) == Only(p, A) /\ UNCHANGED <<builtinVars, triggersVars, desktopVars>>
Acting(p, A) == Only(p, A) /\ UNCHANGED <<callsVars, triggersVars, desktopVars>>
Triggering(p, A) == Only(p, A) /\ UNCHANGED <<callsVars, builtinVars, desktopVars>>
Running(p, A) == Only(p, A) /\ UNCHANGED <<callsVars, builtinVars, triggersVars>>

Isolated(A) == Calling("worker", A) /\ UNCHANGED <<sessionVars, streamVars, answerVars>>
Extending(A) == Calling("sessions", A) /\ UNCHANGED <<workerVars, streamVars, answerVars>>
Drafting(A) == Calling("drafts", A) /\ UNCHANGED <<workerVars, sessionVars, answerVars>>
Answering(A) == Calling("answers", A) /\ UNCHANGED <<workerVars, sessionVars, streamVars>>
Transferring(A) == Acting("transfers", A) /\ UNCHANGED <<commandVars, quietVars>>
Commanding(A) == Acting("commands", A) /\ UNCHANGED <<transferVars, quietVars>>
Watching(A) == Acting("folders", A) /\ UNCHANGED <<transferVars, commandVars>>
Recording(A) == Triggering("macros", A) /\ UNCHANGED <<sensorVars, clockVars>>
Sensing(A) == Triggering("sensors", A) /\ UNCHANGED <<macroVars, clockVars>>
Timing(A) == Triggering("clock", A) /\ UNCHANGED <<macroVars, sensorVars>>
Showing(A) == Running("dashboards", A) /\ UNCHANGED <<hostVars, loadingVars>>
Hosting(A) == Running("hosts", A) /\ UNCHANGED <<dashboardVars, loadingVars>>
Loading(A) == Running("loading", A) /\ UNCHANGED <<dashboardVars, hostVars>>

WorkerSteps ==
  \/ \E c \in Calls :
       \/ Isolated(StartWorker(c)) \/ Isolated(Register(c)) \/ Isolated(OutputEnds(c))
       \/ Isolated(TimesOut(c)) \/ Isolated(TakeReady(c)) \/ Isolated(TakeAnswer(c))
       \/ Isolated(SendRequest(c)) \/ Isolated(Unregister(c)) \/ Isolated(EndCall(c))
       \/ Isolated(SayReady(c)) \/ Isolated(LoadFiles(c)) \/ Isolated(Chatters(c))
       \/ Isolated(Answers(c, "ok")) \/ Isolated(Answers(c, "error"))
       \/ Isolated(Vanishes(c, "gone")) \/ Isolated(Vanishes(c, "mute"))
       \/ Isolated(StopNext(c))
  \/ Isolated(CopyRegister) \/ Isolated(ReplaceFiles)

SessionSteps ==
  \/ \E c \in Commands, s \in Sessions :
       \/ \E offered \in BOOLEAN : Extending(OpenSession(c, s, offered))
       \/ Extending(ReuseSession(c, s))
  \/ \E ss \in SUBSET Sessions : Extending(CloseSession(ss))
  \/ \E s \in Sessions : Extending(CloseNext(s)) \/ Extending(GrowIdle(s))
  \/ Extending(FreeNext) \/ Extending(LoadAgain)
  \/ \E c \in Commands :
       \/ Extending(TakeSlot(c)) \/ Extending(CheckClosed(c)) \/ Extending(EnterCommand(c))
       \/ Extending(AcquireResource(c)) \/ Extending(RegisterCleanup(c)) \/ Extending(Respond(c))
       \/ \E o \in Commands : Extending(StopResource(c, o))
       \/ \E how \in {"stays", "closes"} : Extending(ReturnFrom(c, how))

DraftSteps ==
  \E c \in Clients :
    \/ Drafting(StartStream(c)) \/ Drafting(NoticeDisconnect(c)) \/ Drafting(TakeItem(c))
    \/ Drafting(TimeOut(c)) \/ Drafting(CheckWorker(c)) \/ Drafting(SetCancelled(c))
    \/ Drafting(CancelProvider(c)) \/ Drafting(EndStream(c)) \/ Drafting(Leave(c))
    \/ Drafting(Connect(c)) \/ Drafting(FailStream(c)) \/ Drafting(ReadDelta(c))
    \/ Drafting(EndOfAnswer(c)) \/ Drafting(GiveAnswer(c, "answer"))
    \/ Drafting(GiveAnswer(c, "bad_answer")) \/ Drafting(ReleaseSlot(c)) \/ Drafting(MarkEnd(c))

MacroSteps ==
  \/ \E way \in {"down", "up"} :
       \/ \E k \in Keys : Recording(KeyInput(k, way) /\ playing = 0 /\ UNCHANGED replayVars)
       \/ \E b \in Buttons : Recording(ButtonInput(b, way) /\ playing = 0 /\ UNCHANGED replayVars)
  \/ \E what \in {"move", "wheel"} :
       Recording(OtherInput(what) /\ playing = 0 /\ UNCHANGED replayVars)
  \/ Recording(StopHotkey /\ playing = 0 /\ UNCHANGED replayVars)
  \/ Recording(HookGivesUp /\ playing = 0 /\ UNCHANGED replayVars)
  \/ Recording(HookGoesOn /\ playing = 0 /\ UNCHANGED replayVars)
  \/ Recording(TakeQuery /\ playing = 0 /\ UNCHANGED replayVars)
  \/ \E works \in BOOLEAN : Recording(Query(works) /\ playing = 0 /\ UNCHANGED replayVars)
  \/ Recording(FinishQuery /\ playing = 0 /\ UNCHANGED replayVars)
  \/ Recording(StopRecorder /\ playing = 0 /\ UNCHANGED replayVars)
  \/ Recording(FocusMoves /\ playing = 0 /\ UNCHANGED replayVars)
  \/ Recording(StartReplay /\ UNCHANGED recorderVars)
  \/ Recording(PlayStep /\ UNCHANGED recorderVars)
  \/ Recording(PlayFails /\ UNCHANGED recorderVars)
  \/ \E failing \in SUBSET (Keys \cup Buttons) :
       Recording(ReleaseAll(failing) /\ UNCHANGED recorderVars)

DashboardSteps ==
  \/ \E d \in Boards :
       \/ Showing(OpenBoard(d)) \/ Showing(ClaimPort(d)) \/ Showing(ReadSecret(d))
       \/ Showing(AskToShow(d)) \/ Showing(AskInVain(d)) \/ Showing(PublishSecret(d))
       \/ Showing(PublishFails(d)) \/ (\E built \in BOOLEAN : Showing(ShowWindow(d, built)))
       \/ Showing(ComeToFront(d)) \/ Showing(CloseWindow(d)) \/ Showing(CloseServer(d))
       \/ Showing(CompareSecret(d)) \/ Showing(RemoveSecret(d))
  \/ \E q \in Quitters : Showing(ReadToQuit(q)) \/ Showing(SendQuit(q))

HostSteps ==
  \E h \in Hosts :
    \/ Hosting(LaunchHost(h)) \/ Hosting(ClaimApiPort(h)) \/ Hosting(PrepareFails(h))
    \/ Hosting(StartEngine(h)) \/ Hosting(Serve(h)) \/ Hosting(DrainServer(h))
    \/ (\E works \in BOOLEAN : Hosting(StartTray(h, works))) \/ Hosting(LeaveServe(h))
    \/ Hosting(SignalEarly(h)) \/ Hosting(BeginCleanup(h)) \/ Hosting(EngineJoined(h))
    \/ Hosting(CloseUp(h)) \/ Hosting(EndProcess(h)) \/ Hosting(ForceExit(h))
    \/ Hosting(EngineEnds(h)) \/ Hosting(ActionHangs(h)) \/ Hosting(TrayExit(h))
    \/ (\E on \in BOOLEAN : Hosting(Toggle(h, on))) \/ Hosting(TrayShutsDown(h))
    \/ Hosting(ApiShutdown(h))

TransferSteps ==
  \/ Transferring(TimeIsUp) \/ Transferring(CallOff) \/ Transferring(FileAppears)
  \/ Transferring(Interrupt) \/ Transferring(BeginDownload) \/ Transferring(BeginRequest)
  \/ Transferring(Dial)
  \/ Transferring(DialFails) \/ Transferring(FollowRedirect) \/ Transferring(ReadHead)
  \/ Transferring(NextTurn) \/ Transferring(ReadPiece) \/ Transferring(ReadNothing)
  \/ Transferring(ReadBreaks) \/ Transferring(AcceptAnswer) \/ Transferring(AcceptFile)
  \/ Transferring(Place)
  \/ Transferring(StopWatcher) \/ Transferring(CleanAfter) \/ Transferring(OpenForWriting)
  \/ \E works \in BOOLEAN : Transferring(WriteText(works))

CommandSteps ==
  \/ Commanding(CommandWrites)
  \/ \E how \in {"good", "bad"}, kin \in BOOLEAN : Commanding(CommandEnds(how, kin))
  \/ Commanding(CommandOverdue) \/ Commanding(CommandCalledOff)
  \/ Commanding(ReaderGives) \/ Commanding(ReaderTakes) \/ Commanding(ReaderSeesNothing)
  \/ Commanding(ReaderTurns) \/ Commanding(ReaderBreaks)
  \/ \E installed \in BOOLEAN : Commanding(Launch(installed))
  \/ Commanding(PollCommand) \/ Commanding(JoinReaders) \/ Commanding(Collect)
  \/ \E typed \in Requested : \E n \in 0 .. Len(typed) : Commanding(SendKeys(typed, n))

FolderSteps ==
  \/ Watching(TimePasses)
  \/ \E d \in Watched, i \in FileIds : Watching(ChangeFile(d, i))
  \/ \E k \in Checkers :
       \/ \E d \in Watched : Watching(BeginListing(k, d))
       \/ \E i \in FileIds : Watching(ListFile(k, i))
       \/ \E free \in BOOLEAN : Watching(Judge(k, free))
       \/ Watching(Observe(k)) \/ Watching(Acknowledge(k))

AnswerSteps ==
  \/ \E n \in 1 .. Len(coming) : Answering(ReadChunk(n))
  \/ Answering(ReadEnd) \/ Answering(ReadFails) \/ Answering(StopReading)
  \/ Answering(PostAnswer)

LoadingSteps ==
  \/ \E saved \in BOOLEAN : Loading(LoadFolder(saved))
  \/ \E t \in Threads :
       \/ Loading(Resolve(t)) \/ Loading(EnterLoading(t)) \/ Loading(ReadAgain(t))
       \/ Loading(RefuseChanged(t)) \/ Loading(Import(t)) \/ Loading(ImportFails(t))
       \/ Loading(SetUp(t)) \/ Loading(SetUpFails(t)) \/ Loading(Authorise(t))
       \/ Loading(LoadExtensions(t)) \/ Loading(RunAsAdmin(t)) \/ Loading(CallAgain(t))
  \/ \E f \in FolderNames, c \in Edited : Loading(EditFolder(f, c))
  \/ Loading(CloseEngine) \/ Loading(ClearRegistry) \/ Loading(NextEngine)

MCNext ==
  \/ part = "worker" /\ WorkerSteps
  \/ part = "sessions" /\ SessionSteps
  \/ part = "drafts" /\ DraftSteps
  \/ part = "macros" /\ MacroSteps
  \/ part = "sensors" /\ \E s \in SamplesOf(sensor.kind, sensor.target) : Sensing(PollSensor(s))
  \/ part = "clock" /\ \E now \in Instants : Timing(PollClock(now))
  \/ part = "transfers" /\ TransferSteps
  \/ part = "commands" /\ CommandSteps
  \/ part = "folders" /\ FolderSteps
  \/ part = "answers" /\ AnswerSteps
  \/ part = "dashboards" /\ DashboardSteps
  \/ part = "hosts" /\ HostSteps
  \/ part = "loading" /\ LoadingSteps

MCSpec == MCInit /\ [][MCNext]_vars

----------------------------------------------------------------------------
(* What several of the parts promise together.                              *)
(* Polled events and clock triggers are honest (SampledTriggers,            *)
(* ScheduleTriggers).                                                       *)
TriggersHonest == EventsMatchSamples /\ RingsOnTime

(* Isolated and built-in actions end as they report, and leave nothing behind *)
(* (PluginWorker, TransferActions, CommandActions, QuietFolders).           *)
ActionsSettle == CallsSettled /\ TransfersSettle /\ CommandsSettle /\ QuietMeansUnchanged

(* What goes through comes out as it was, and nothing more: the words of an *)
(* AI service's answer, a recorded macro, typed keys (AnswerStream,         *)
(* MacroReplay, CommandActions).                                            *)
ContentKept == AnswerRead /\ InputHonest /\ NoKeyHeld

=============================================================================
