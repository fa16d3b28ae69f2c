-------------------------- MODULE IndependentParts --------------------------
(***************************************************************************)
(* The parts of the CLI that share no state with one another, each at work *)
(* by itself: a behaviour is one of the part chosen at its start, and the  *)
(* others are as on a new machine.  run_cli runs one command, and these    *)
(* are what commands consist of: a store's sessions and the identity's, a  *)
(* request, a deploy, a pull, the start of theme dev, a command for        *)
(* several environments, a build that needs a tool, and three tasks of app *)
(* dev and theme app dev.                                                  *)
(***************************************************************************)
EXTENDS MCStoreSession, AuthSession, ApiRequest, Deploy, ThemePull, ThemeStart,
        ThemeEnvironments, ToolDownload, AppPreview, DraftUpdates, ThemeExtHost

VARIABLE part

allVars == <<part, vars, authVars, requestVars, deployVars, pullVars, startVars,
             environmentVars, toolVars, previewVars, draftVars, extHostVars>>

Parts == {"store", "identity", "request", "deploy", "pull", "theme start",
          "environments", "tool", "preview", "drafts", "extension host"}

\* A part that is not at work has nothing to begin with.
Unless(p, nothing) == part = p \/ nothing

PartsInit ==
    /\ part \in Parts
    /\ Init
    /\ Unless("store", file = NoBucket)
    /\ AuthInit
    /\ Unless("identity", config = NoConfig)
    /\ RequestInit /\ Unless("request", query.refreshes)
    /\ DeployInit /\ Unless("deploy", atomic /\ registered = {})
    /\ PullInit /\ Unless("pull", \A f \in ThemeFiles : disk[f] = Gone /\ theme[f] = Gone)
    /\ StartInit
    /\ Unless("theme start", start.sync /\ start.nodelete /\ working = NoFiles /\ devTheme = NoFiles)
    /\ EnvironmentsInit
    /\ Unless("environments",
              /\ run.name = CHOOSE c \in ThemeCommands : TRUE
              /\ run.lastStore = NoStore /\ \A e \in Environments : run.stores[e] = NoStore
              /\ \A s \in Stores : references[s] = NoTheme)
    /\ ToolInit /\ Unless("tool", renames)
    /\ PreviewInit /\ DraftInit
    /\ ExtHostInit /\ Unless("extension host", \A f \in ExtFiles : extDisk[f] = 0)

PartsNext ==
    /\ UNCHANGED part
    /\ \/ /\ part = "store" /\ Next
          /\ UNCHANGED <<authVars, requestVars, deployVars, pullVars, startVars, environmentVars,
                         toolVars, previewVars, draftVars, extHostVars>>
       \/ /\ part = "identity" /\ AuthNext
          /\ UNCHANGED <<vars, requestVars, deployVars, pullVars, startVars, environmentVars, toolVars,
                         previewVars, draftVars, extHostVars>>
       \/ /\ part = "request" /\ RequestNext
          /\ UNCHANGED <<vars, authVars, deployVars, pullVars, startVars, environmentVars, toolVars,
                         previewVars, draftVars, extHostVars>>
       \/ /\ part = "deploy" /\ DeployNext
          /\ UNCHANGED <<vars, authVars, requestVars, pullVars, startVars, environmentVars, toolVars,
                         previewVars, draftVars, extHostVars>>
       \/ /\ part = "pull" /\ PullNext
          /\ UNCHANGED <<vars, authVars, requestVars, deployVars, startVars, environmentVars, toolVars,
                         previewVars, draftVars, extHostVars>>
       \/ /\ part = "theme start" /\ StartNext
          /\ UNCHANGED <<vars, authVars, requestVars, deployVars, pullVars, environmentVars, toolVars,
                         previewVars, draftVars, extHostVars>>
       \/ /\ part = "environments" /\ EnvironmentsNext
          /\ UNCHANGED <<vars, authVars, requestVars, deployVars, pullVars, startVars, toolVars,
                         previewVars, draftVars, extHostVars>>
       \/ /\ part = "tool" /\ ToolNext
          /\ UNCHANGED <<vars, authVars, requestVars, deployVars, pullVars, startVars, environmentVars,
                         previewVars, draftVars, extHostVars>>
       \/ /\ part = "preview" /\ PreviewNext
          /\ UNCHANGED <<vars, authVars, requestVars, deployVars, pullVars, startVars, environmentVars,
                         toolVars, draftVars, extHostVars>>
       \/ /\ part = "drafts" /\ DraftNext
          /\ UNCHANGED <<vars, authVars, requestVars, deployVars, pullVars, startVars, environmentVars,
                         toolVars, previewVars, extHostVars>>
       \/ /\ part = "extension host" /\ ExtHostNext
          /\ UNCHANGED <<vars, authVars, requestVars, deployVars, pullVars, startVars, environmentVars,
                         toolVars, previewVars, draftVars>>

PartsSpec == PartsInit /\ [][PartsNext]_allVars
=============================================================================
