------------------------------ MODULE CedrusSetup ------------------------------
(***************************************************************************)
(* Setup functions of the cedrus driver and their unwinding.  Each one is  *)
(* a sequence of steps; a step that fails jumps to a label, or returns at  *)
(* once, and from a label on all the releases that follow it are executed. *)
(* A path records what every step acquires, where its failure goes and     *)
(* what the code under each label, in the order of the source, releases;   *)
(* and what the matching cleanup function releases.                        *)
(***************************************************************************)
EXTENDS Naturals, Sequences

\* A step: what it acquires and the label of its failure.
Step(what, label) == [what |-> what, label |-> label]
\* The code under a label: what it releases.
At(label, what)   == [label |-> label, what |-> what]
CHECK  == "check"     \* what a mere check acquires
RETURN == "return"    \* the failing step returns at once
NEVER  == "never"     \* the step cannot fail

Held(path, n)  == {path.steps[i].what : i \in 1..n} \ {CHECK}

\* Execution falls through from the label of step n to the end.
Released(path, n) ==
  UNION {path.undo[k].what :
           k \in {k \in 1..Len(path.undo) :
                    \E l \in 1..k : path.undo[l].label = path.steps[n].label}}
-----------------------------------------------------------------------------
(* The platform device.                                                    *)

cedrus_probe ==
  [steps   |-> <<Step("resources", RETURN), Step("v4l2", "error_resources"),
                 Step("dec", "error_v4l2"), Step("enc", "error_dec")>>,
   undo    |-> <<At("error_dec", {"dec"}), At("error_v4l2", {"v4l2"}),
                 At("error_resources", {"resources"})>>,
   cleanup |-> {"enc", "dec", "v4l2", "resources"}]

\* Registers, clocks, reset and interrupt belong to the device and need no
\* release; the clock rate stays.
cedrus_resources_setup ==
  [steps   |-> <<Step(CHECK, RETURN), Step(CHECK, RETURN), Step("memory", RETURN),
                 Step("sram", "error_memory"), Step("pm", NEVER)>>,
   undo    |-> <<At("error_memory", {"memory"})>>,
   cleanup |-> {"pm", "sram", "memory"}]

cedrus_v4l2_setup ==
  [steps   |-> <<Step("media", RETURN), Step("v4l2_device", "error_media"),
                 Step("m2m", "error_v4l2")>>,
   undo    |-> <<At("error_v4l2", {"v4l2_device"}), At("error_media", {"media"})>>,
   cleanup |-> {"m2m", "v4l2_device", "media"}]

\* Leaving runtime suspend; suspend is its cleanup.
cedrus_resume ==
  [steps   |-> <<Step("reset", RETURN), Step("ahb", "error_reset"),
                 Step("mod", "error_clock_ahb"), Step("ram", "error_clock_mod")>>,
   undo    |-> <<At("error_clock_mod", {"mod"}), At("error_clock_ahb", {"ahb"}),
                 At("error_reset", {"reset"})>>,
   cleanup |-> {"ram", "mod", "ahb", "reset"}]

\* A video node: device, three media entities, device node and links.  The
\* device node and its interface links go with the media device.
cedrus_proc_v4l2_setup ==
  [steps   |-> <<Step("video", RETURN), Step("source", "error_video"),
                 Step("proc", "error_media_source"), Step("sink", "error_media_proc"),
                 Step("devnode", "error_media_sink"),
                 Step("source_link", "error_media_devnode"),
                 Step("sink_link", "error_media_source_link"),
                 Step(CHECK, "error_media_sink_link"), Step(CHECK, "error_media_sink_link")>>,
   undo    |-> <<At("error_media_sink_link", {"sink_link"}),
                 At("error_media_source_link", {"source_link"}),
                 At("error_media_devnode", {"devnode"}),
                 At("error_media_sink", {"sink"}), At("error_media_proc", {"proc"}),
                 At("error_media_source", {"source"}), At("error_video", {"video"})>>,
   cleanup |-> {"video", "source", "proc", "sink", "source_link", "sink_link", "devnode"}]
-----------------------------------------------------------------------------
(* A file and its context.                                                 *)

cedrus_context_ctrls_setup ==
  [steps   |-> <<Step(CHECK, RETURN), Step("ctrls", RETURN), Step("handler", "error_ctrls"),
                 Step(CHECK, "error_handler"), Step(CHECK, "error_handler")>>,
   undo    |-> <<At("error_handler", {"handler"}), At("error_ctrls", {"ctrls"})>>,
   cleanup |-> {"handler", "ctrls"}]

cedrus_context_setup ==
  [steps   |-> <<Step("m2m_ctx", RETURN), Step("ctrls", "error_v4l2_m2m"),
                 Step(CHECK, "error_ctrls"), Step("fh", NEVER)>>,
   undo    |-> <<At("error_ctrls", {"ctrls"}), At("error_v4l2_m2m", {"m2m_ctx"})>>,
   cleanup |-> {"fh", "ctrls", "m2m_ctx"}]

\* Open allocates the context and unlocks the node on every path; a context
\* whose setup fails stays behind.
cedrus_proc_open ==
  [steps   |-> <<Step("ctx", "complete"), Step(CHECK, "complete")>>,
   undo    |-> <<At("complete", {})>>,
   cleanup |-> {"ctx"}]

\* Faulty variant of cedrus_context_start_streaming: the job allocation jumps too far.
cedrus_context_start_streamingEarly ==
  [steps   |-> <<Step("pm", "error_queue"), Step("engine_ctx", "error_pm"),
                 Step("engine_job", "error_pm"), Step("engine", "error_alloc_job")>>,
   undo    |-> <<At("error_alloc_job", {"engine_job"}),
                 At("error_alloc_engine", {"engine_ctx"}), At("error_pm", {"pm"}),
                 At("error_queue", {})>>,
   cleanup |-> {"engine", "engine_job", "engine_ctx", "pm"}]
cedrus_context_start_streaming ==
  [steps   |-> <<Step("pm", "error_queue"), Step("engine_ctx", "error_pm"),
                 Step("engine_job", "error_alloc_engine"), Step("engine", "error_alloc_job")>>,
   undo    |-> <<At("error_alloc_job", {"engine_job"}),
                 At("error_alloc_engine", {"engine_ctx"}), At("error_pm", {"pm"}),
                 At("error_queue", {})>>,
   cleanup |-> {"engine", "engine_job", "engine_ctx", "pm"}]

cedrus_context_buffer_init ==
  [steps   |-> <<Step("engine_buffer", RETURN), Step("engine_memory", "error_buffer")>>,
   undo    |-> <<At("error_buffer", {"engine_buffer"})>>,
   cleanup |-> {"engine_memory", "engine_buffer"}]
-----------------------------------------------------------------------------
(* The engines.                                                            *)

\* Up to 2048 pixels wide, only the first two.
cedrus_dec_h264_setup(wide) ==
  [steps   |-> <<Step("pic_info", RETURN), Step("neighbor_info", "error_pic_info_buf")>>
                 \o IF wide THEN <<Step("deblk", "error_neighbor_info_buf"),
                                   Step("intra_pred", "error_deblk_buf")>> ELSE <<>>,
   undo    |-> <<At("error_deblk_buf", {"deblk"}),
                 At("error_neighbor_info_buf", {"neighbor_info"}),
                 At("error_pic_info_buf", {"pic_info"})>>,
   cleanup |-> {"pic_info", "neighbor_info"} \cup IF wide THEN {"deblk", "intra_pred"} ELSE {}]

cedrus_dec_h265_setup ==
  [steps   |-> <<Step("neighbor_info", RETURN), Step("entry_points", "error_neighbor_info_buf")>>,
   undo    |-> <<At("error_neighbor_info_buf", {"neighbor_info"})>>,
   cleanup |-> {"neighbor_info", "entry_points"}]

cedrus_dec_vp8_setup ==
  [steps   |-> <<Step("entropy_probs", RETURN)>>, undo |-> <<>>, cleanup |-> {"entropy_probs"}]

cedrus_enc_h264_setup ==
  [steps   |-> <<Step("mb_info", RETURN), Step(CHECK, "error_dma"), Step(CHECK, "error_dma")>>,
   undo    |-> <<At("error_dma", {"mb_info"})>>,
   cleanup |-> {"mb_info"}]

cedrus_enc_h264_buffer_setup ==
  [steps   |-> <<Step("subpix", RETURN), Step("rec", "error_subpix")>>,
   undo    |-> <<At("error_subpix", {"subpix"})>>,
   cleanup |-> {"rec", "subpix"}]
-----------------------------------------------------------------------------
(* Properties.                                                             *)

SetupPaths ==
  {cedrus_probe, cedrus_resources_setup, cedrus_v4l2_setup, cedrus_resume,
   cedrus_proc_v4l2_setup, cedrus_context_ctrls_setup, cedrus_context_setup,
   cedrus_context_start_streaming, cedrus_context_buffer_init,
   cedrus_dec_h264_setup(TRUE), cedrus_dec_h264_setup(FALSE), cedrus_dec_h265_setup,
   cedrus_dec_vp8_setup, cedrus_enc_h264_setup, cedrus_enc_h264_buffer_setup}

\* A setup that fails at any of its steps has released exactly what the steps
\* before acquired, no less and nothing it does not hold; the cleanup function
\* releases what a complete setup acquired.  (Open is not among the paths: it
\* leaves the context of a failed setup behind.)
SetupAllOrNothing ==
  \A path \in SetupPaths :
    /\ \A n \in 1..Len(path.steps) :
         path.steps[n].label # NEVER => Released(path, n) = Held(path, n - 1)
    /\ path.cleanup = Held(path, Len(path.steps))
=============================================================================
