------------------------------ MODULE MCTools ------------------------------
(***************************************************************************)
(* Instances of the receive path, of the logger and of the configuration    *)
(* reader small enough for TLC, each on its own: a behaviour is one of the  *)
(* three, and the others stay as they were made.                            *)
(***************************************************************************)
EXTENDS MCReceive, TLC

CONSTANTS a, b    \* threads of the logger

\* A name that is part of others, with and without a value, at the end of the file
\* and not, and a line that is none of all these.
Port   == <<"P">>
Port2  == <<"P", "Q">>
Names  == {Port, Port2}
Digits == {"1", "2"}

ConfigLine(n, v) == n \o <<" ", "=", " ">> \o v \o <<"newline">>

Lines == { ConfigLine(Port, <<"1">>), ConfigLine(Port, <<"2", "1">>), ConfigLine(Port2, <<"2">>),
           ConfigLine(<<"Q", "P">>, <<"1">>), ConfigLine(Port, <<"X", "1">>),
           <<"P", "newline">>, <<"Q", "=", "newline">>, <<"X", "newline">> }
Ends  == Lines \cup { <<>>, <<"P">>, <<"P", "=">>, <<"P", "=", "1">>, <<"P", "Q", " ", "=">> }

Files == { <<l>> : l \in Ends } \cup (Lines \X Ends) \cup (Lines \X Lines \X Ends)

\* Nothing of use; a number; another text.
Leftovers == { <<"X">>, <<"1">>, <<"Q", "=", "2">>, <<"P", "Q", " ", "=", " ", "1", "newline">> }

VARIABLES
  running,      \* the part of this behaviour
  lLevel, lLogFile, lMonitorFile, lQueue, lEvent, lCalls, lPc, lMessage, lLogLevel,
  lWriter, lLog, lFailed, lReported, lEnded,
  cText, cFileString, cValueName, cType, cI, cPc, cReturned, cOut

loggerVars == <<lLevel, lLogFile, lMonitorFile, lQueue, lEvent, lCalls, lPc, lMessage, lLogLevel,
                lWriter, lLog, lFailed, lReported, lEnded>>
configVars == <<cText, cFileString, cValueName, cType, cI, cPc, cReturned, cOut>>

L == INSTANCE Logger WITH
       Threads <- {a, b}, Levels <- {0, 2, 4}, MaxCalls <- 3,
       mLogLevel <- lLevel, mhLogFile <- lLogFile, mhMonitorFile <- lMonitorFile,
       mAsyncLogQueue <- lQueue, mAsyncLogEvent <- lEvent, calls <- lCalls, pc <- lPc,
       message <- lMessage, logLevel <- lLogLevel, writer <- lWriter, log <- lLog,
       failed <- lFailed, reported <- lReported, ended <- lEnded

C == INSTANCE ConfigReader WITH
       text <- cText, fileString <- cFileString, valueName <- cValueName, type <- cType,
       i <- cI, pc <- cPc, returned <- cReturned, out <- cOut

ASSUME ToolConstants == L!LoggerConstants /\ C!ConfigConstants

\* The file is chosen only if it is read.
ToolsInit ==
  /\ Init /\ L!Init /\ C!Init
  /\ running \in {"receive", "logger", "config"}
  /\ running # "receive" => packets = Mixed /\ lead = 7
  /\ running # "config" => cText = <<<<>>>>

ToolsNext ==
  /\ UNCHANGED running
  /\ \/ running = "receive" /\ Next       /\ UNCHANGED <<loggerVars, configVars>>
     \/ running = "logger"  /\ L!NextStep /\ UNCHANGED <<receiveVars, configVars>>
     \/ running = "config"  /\ C!NextStep /\ UNCHANGED <<receiveVars, loggerVars>>

toolsVars == <<running, receiveVars, loggerVars, configVars>>

\* The receive path has the fairness of Receive.
ToolsSpec == /\ ToolsInit /\ [][ToolsNext]_toolsVars
             /\ WF_toolsVars(running = "receive" /\ LoopStep /\ UNCHANGED <<running, loggerVars, configVars>>)
             /\ WF_toolsVars(running = "receive" /\ Arrival /\ UNCHANGED <<running, loggerVars, configVars>>)

----------------------------------------------------------------------------
\* The values the variables of each range over.
TypesOK == TypeOK /\ L!TypeOK /\ C!TypeOK

\* Receive: each packet reaches OnReceive or the receiving ends.
PacketsHandled == running = "receive" => EveryPacketHandled

\* Logger: a message in the queue is never left to a writer that sleeps on.
NoLostWakeup == L!NoLostWakeup

\* Logger: the message of the assertion that ends the process is in the log file.
AssertIsLogged == L!AssertIsLogged

\* ConfigReader: a value written as the header shows is the one that is read.
ReadsWhatIsWritten == C!ReadsWhatIsWritten
=============================================================================
