--------------------------- MODULE PacketLayouts ---------------------------
(***************************************************************************)
(* The packets whose layout depends on their values (proto/packet/): what  *)
(* write() writes of an object, and the object that read() makes of it.    *)
(*                                                                         *)
(* An object is a record of its attributes, and its class in "packet".  A  *)
(* stream is a sequence of <<kind, value>>, the kind the method of         *)
(* PacketWriter that wrote the value (its bytes are in PacketIO), "byte"   *)
(* of bytes_raw.  None is the empty sequence, and an optional value a      *)
(* sequence of one; a value that no layout depends on is a number or a     *)
(* string that stands for it.                                              *)
(***************************************************************************)
EXTENDS Integers, Sequences, SequencesExt, TLC

If(cond, items) == IF cond THEN items ELSE <<>>
HasBit(flags, i) == (flags \div (2 ^ i)) % 2 = 1

\* What a writer does: one value, or the bytes of a raw field.
W(kind, value) == IF kind = "raw" THEN value ELSE <<<<kind, value>>>>
WOptional(kind, o) == W("bool", o # <<>>) \o If(o # <<>>, W(kind, o[1]))

\* What a reader does: the name of the variable that it reads, and how.
R(name, kind) == <<[name |-> name, kind |-> kind, optional |-> FALSE]>>
ROptional(name, kind) == <<[name |-> name, kind |-> kind, optional |-> TRUE]>>

\* The attributes of a class by what they are, and their defaults.
Default(type) ==
    CASE type = "int" -> 0 [] type = "string" -> "" [] type = "bool" -> FALSE
      [] type = "vec3" -> <<0, 0, 0>> [] type = "setting" -> <<"none", 0>>
      [] type \in {"raw", "slice"} -> <<>>
      [] type \in {"int or None", "string or None", "bool or None", "raw or None"} -> <<>>
Of(names, type) == [n \in names |-> type]

-----------------------------------------------------------------------------
BossEventClass ==
    Of({"boss_entity_unique_id", "event_type", "player_unique_id", "health_percentage", "screen_darkening",
        "colour", "overlay"}, "int")
    @@ Of({"boss_bar_title", "filtered_boss_bar_title"}, "string")
WriteBossEvent(p) ==
    W("varint64", p.boss_entity_unique_id) \o W("varuint32", p.event_type)
    \o CASE p.event_type = 0 ->
                W("string", p.boss_bar_title) \o W("string", p.filtered_boss_bar_title)
                \o W("float32", p.health_percentage) \o W("uint16", p.screen_darkening)
                \o W("varuint32", p.colour) \o W("varuint32", p.overlay)
         [] p.event_type \in {1, 3, 8} -> W("varint64", p.player_unique_id)
         [] p.event_type = 4 -> W("float32", p.health_percentage)
         [] p.event_type = 5 -> W("string", p.boss_bar_title) \o W("string", p.filtered_boss_bar_title)
         [] p.event_type = 6 -> W("uint16", p.screen_darkening) \o W("varuint32", p.colour) \o W("varuint32", p.overlay)
         [] p.event_type = 7 -> W("varuint32", p.colour) \o W("varuint32", p.overlay)
         [] OTHER -> <<>>
ReadBossEvent(a) ==
    R("boss_entity_unique_id", "varint64") \o R("event_type", "varuint32")
    \o CASE a.event_type = 0 ->
                R("boss_bar_title", "string") \o R("filtered_boss_bar_title", "string")
                \o R("health_percentage", "float32") \o R("screen_darkening", "uint16")
                \o R("colour", "varuint32") \o R("overlay", "varuint32")
         [] a.event_type \in {1, 3, 8} -> R("player_unique_id", "varint64")
         [] a.event_type = 4 -> R("health_percentage", "float32")
         [] a.event_type = 5 -> R("boss_bar_title", "string") \o R("filtered_boss_bar_title", "string")
         [] a.event_type = 6 -> R("screen_darkening", "uint16") \o R("colour", "varuint32") \o R("overlay", "varuint32")
         [] a.event_type = 7 -> R("colour", "varuint32") \o R("overlay", "varuint32")
         [] OTHER -> <<>>

MESSAGE_ONLY_TYPES == {0, 5, 6, 9, 10, 11}
AUTHORED_MESSAGE_TYPES == {1, 7, 8}
PARAMETERIZED_TYPES == {2, 3, 4}
TextClass ==
    Of({"needs_translation"}, "bool") @@ Of({"text_type"}, "int")
    @@ Of({"source_name", "message", "xuid", "platform_chat_id"}, "string")
    @@ Of({"parameters"}, "slice") @@ Of({"filtered_message"}, "string or None")
\* The category of the types, which the reader drops.
Category(text_type) ==
    IF text_type \in MESSAGE_ONLY_TYPES THEN 0 ELSE IF text_type \in AUTHORED_MESSAGE_TYPES THEN 1 ELSE 2
WriteText(p) ==
    W("bool", p.needs_translation) \o W("uint8", Category(p.text_type)) \o W("uint8", p.text_type)
    \o (CASE p.text_type \in AUTHORED_MESSAGE_TYPES -> W("string", p.source_name) \o W("string", p.message)
         [] p.text_type \in MESSAGE_ONLY_TYPES -> W("string", p.message)
         [] p.text_type \in PARAMETERIZED_TYPES -> W("string", p.message) \o W("slice", p.parameters)
         [] OTHER -> <<>>)
    \o W("string", p.xuid) \o W("string", p.platform_chat_id) \o WOptional("string", p.filtered_message)
ReadText(a) ==
    R("needs_translation", "bool") \o R("_category", "uint8") \o R("text_type", "uint8")
    \o (CASE a.text_type \in AUTHORED_MESSAGE_TYPES -> R("source_name", "string") \o R("message", "string")
         [] a.text_type \in MESSAGE_ONLY_TYPES -> R("message", "string")
         [] a.text_type \in PARAMETERIZED_TYPES -> R("message", "string") \o R("parameters", "slice")
         [] OTHER -> <<>>)
    \o R("xuid", "string") \o R("platform_chat_id", "string") \o ROptional("filtered_message", "string")

\* What follows the branch is a fixed list of fields: command, last_output and the others.
CommandBlockUpdateClass ==
    Of({"block", "needs_redstone", "conditional"}, "bool") @@ Of({"position"}, "vec3")
    @@ Of({"mode", "minecart_entity_runtime_id"}, "int") @@ Of({"command"}, "string")
WriteCommandBlockUpdate(p) ==
    W("bool", p.block)
    \o (IF p.block
        THEN W("block_pos", p.position) \o W("varuint32", p.mode) \o W("bool", p.needs_redstone)
             \o W("bool", p.conditional)
        ELSE W("varuint64", p.minecart_entity_runtime_id))
    \o W("string", p.command)
ReadCommandBlockUpdate(a) ==
    R("block", "bool")
    \o (IF a.block
        THEN R("position", "block_pos") \o R("mode", "varuint32") \o R("needs_redstone", "bool")
             \o R("conditional", "bool")
        ELSE R("minecart_entity_runtime_id", "varuint64"))
    \o R("command", "string")

BookEditClass ==
    Of({"inventory_slot", "action_type", "page_number", "secondary_page_number"}, "int")
    @@ Of({"text", "photo_name", "title", "author", "xuid"}, "string")
WriteBookEdit(p) ==
    W("varint32", p.inventory_slot) \o W("varuint32", p.action_type)
    \o CASE p.action_type \in {0, 1} -> W("varint32", p.page_number) \o W("string", p.text) \o W("string", p.photo_name)
         [] p.action_type = 2 -> W("varint32", p.page_number)
         [] p.action_type = 3 -> W("varint32", p.page_number) \o W("varint32", p.secondary_page_number)
         [] p.action_type = 4 -> W("string", p.title) \o W("string", p.author) \o W("string", p.xuid)
         [] OTHER -> <<>>
ReadBookEdit(a) ==
    R("inventory_slot", "varint32") \o R("action_type", "varuint32")
    \o CASE a.action_type \in {0, 1} -> R("page_number", "varint32") \o R("text", "string") \o R("photo_name", "string")
         [] a.action_type = 2 -> R("page_number", "varint32")
         [] a.action_type = 3 -> R("page_number", "varint32") \o R("secondary_page_number", "varint32")
         [] a.action_type = 4 -> R("title", "string") \o R("author", "string") \o R("xuid", "string")
         [] OTHER -> <<>>

\* A rotation is counted in halves of 1/256 of a turn: byte_float cuts off what is between.
Turn == 256
ByteFloat(v) == (IF v >= 0 THEN v \div 2 ELSE -((-v) \div 2)) % Turn
MoveActorDeltaClass == Of({"entity_runtime_id", "flags"}, "int") @@ Of({"position", "rotation"}, "vec3")
WriteMoveActorDelta(p) ==
    W("varuint64", p.entity_runtime_id) \o W("uint16", p.flags)
    \o If(HasBit(p.flags, 0), W("float32", p.position[1])) \o If(HasBit(p.flags, 1), W("float32", p.position[2]))
    \o If(HasBit(p.flags, 2), W("float32", p.position[3]))
    \o If(HasBit(p.flags, 3), W("byte_float", ByteFloat(p.rotation[1])))
    \o If(HasBit(p.flags, 4), W("byte_float", ByteFloat(p.rotation[2])))
    \o If(HasBit(p.flags, 5), W("byte_float", ByteFloat(p.rotation[3])))
ReadMoveActorDelta(a) ==
    R("entity_runtime_id", "varuint64") \o R("flags", "uint16")
    \o If(HasBit(a.flags, 0), R("px", "float32")) \o If(HasBit(a.flags, 1), R("py", "float32"))
    \o If(HasBit(a.flags, 2), R("pz", "float32")) \o If(HasBit(a.flags, 3), R("rx", "byte_float"))
    \o If(HasBit(a.flags, 4), R("ry", "byte_float")) \o If(HasBit(a.flags, 5), R("rz", "byte_float"))

\* The fields before the mode, of which position stands for all, are a fixed list.
MovePlayerClass ==
    Of({"mode", "ridden_entity_runtime_id", "teleport_cause", "teleport_source_entity_type", "tick"}, "int")
    @@ Of({"position"}, "vec3") @@ Of({"on_ground"}, "bool")
WriteMovePlayer(p) ==
    W("vec3", p.position) \o W("uint8", p.mode) \o W("bool", p.on_ground) \o W("varuint64", p.ridden_entity_runtime_id)
    \o If(p.mode = 2, W("int32", p.teleport_cause) \o W("int32", p.teleport_source_entity_type))
    \o W("varuint64", p.tick)
ReadMovePlayer(a) ==
    R("position", "vec3") \o R("mode", "uint8") \o R("on_ground", "bool") \o R("ridden_entity_runtime_id", "varuint64")
    \o If(a.mode = 2, R("teleport_cause", "int32") \o R("teleport_source_entity_type", "int32"))
    \o R("tick", "varuint64")

SyncWorldClocksClass ==
    Of({"payload_type", "add_clock_id", "remove_clock_id"}, "int")
    @@ Of({"sync_states", "clocks", "add_time_markers"}, "raw") @@ Of({"remove_time_marker_ids"}, "slice")
WriteSyncWorldClocks(p) ==
    W("varuint32", p.payload_type)
    \o CASE p.payload_type = 0 -> W("raw", p.sync_states)
         [] p.payload_type = 1 -> W("raw", p.clocks)
         [] p.payload_type = 2 -> W("varuint64", p.add_clock_id) \o W("raw", p.add_time_markers)
         [] p.payload_type = 3 -> W("varuint64", p.remove_clock_id) \o W("slice", p.remove_time_marker_ids)
         [] OTHER -> <<>>
ReadSyncWorldClocks(a) ==
    R("payload_type", "varuint32")
    \o CASE a.payload_type = 0 -> R("sync_states", "raw")
         [] a.payload_type = 1 -> R("clocks", "raw")
         [] a.payload_type = 2 -> R("add_clock_id", "varuint64") \o R("add_time_markers", "raw")
         [] a.payload_type = 3 -> R("remove_clock_id", "varuint64") \o R("remove_time_marker_ids", "slice")
         [] OTHER -> <<>>

\* Names that are None are written as none: <<>> is both here.
AttributeLayerSyncClass ==
    Of({"payload_type", "dimension_id"}, "int") @@ Of({"layer_name"}, "string")
    @@ Of({"layers", "settings", "environment_attributes"}, "raw") @@ Of({"remove_attribute_names"}, "slice")
WriteAttributeLayerSync(p) ==
    LET layer == W("string", p.layer_name) \o W("varint32", p.dimension_id) IN
    W("varuint32", p.payload_type)
    \o CASE p.payload_type = 0 -> W("raw", p.layers)
         [] p.payload_type = 1 -> layer \o W("raw", p.settings)
         [] p.payload_type = 2 -> layer \o W("raw", p.environment_attributes)
         [] p.payload_type = 3 -> layer \o W("slice", p.remove_attribute_names)
         [] OTHER -> <<>>
ReadAttributeLayerSync(a) ==
    LET layer == R("layer_name", "string") \o R("dimension_id", "varint32") IN
    R("payload_type", "varuint32")
    \o CASE a.payload_type = 0 -> R("layers", "raw")
         [] a.payload_type = 1 -> layer \o R("settings", "raw")
         [] a.payload_type = 2 -> layer \o R("environment_attributes", "raw")
         [] a.payload_type = 3 -> layer \o R("remove_attribute_names", "slice")
         [] OTHER -> <<>>

PlayerUpdateEntityOverridesClass ==
    Of({"entity_unique_id", "property_index", "type", "int_value", "float_value"}, "int")
WritePlayerUpdateEntityOverrides(p) ==
    W("varint64", p.entity_unique_id) \o W("varuint32", p.property_index) \o W("uint8", p.type)
    \o If(p.type = 2, W("int32", p.int_value)) \o If(p.type = 3, W("float32", p.float_value))
ReadPlayerUpdateEntityOverrides(a) ==
    R("entity_unique_id", "varint64") \o R("property_index", "varuint32") \o R("type", "uint8")
    \o If(a.type = 2, R("int_value", "int32")) \o If(a.type = 3, R("float_value", "float32"))

\* Of the numbers of sub-chunks, the mark of the limited requests: 2^32 - 2.
SUB_CHUNK_REQUEST_MODE_LIMITED == 254
LevelChunkClass ==
    Of({"position"}, "vec3") @@ Of({"dimension", "sub_chunk_count", "highest_sub_chunk"}, "int")
    @@ Of({"cache_enabled"}, "bool") @@ Of({"blob_hashes"}, "slice") @@ Of({"raw_payload"}, "string")
WriteLevelChunk(p) ==
    W("chunk_pos", p.position) \o W("varint32", p.dimension) \o W("varuint32", p.sub_chunk_count)
    \o If(p.sub_chunk_count = SUB_CHUNK_REQUEST_MODE_LIMITED, W("uint16", p.highest_sub_chunk))
    \o W("bool", p.cache_enabled) \o If(p.cache_enabled, W("slice", p.blob_hashes))
    \o W("byte_slice", p.raw_payload)
ReadLevelChunk(a) ==
    R("position", "chunk_pos") \o R("dimension", "varint32") \o R("sub_chunk_count", "varuint32")
    \o If(a.sub_chunk_count = SUB_CHUNK_REQUEST_MODE_LIMITED, R("highest_sub_chunk", "uint16"))
    \o R("cache_enabled", "bool") \o If(a.cache_enabled, R("blob_hashes", "slice"))
    \o R("raw_payload", "byte_slice")

DisconnectClass ==
    Of({"reason"}, "int") @@ Of({"hide_disconnection_screen"}, "bool") @@ Of({"message", "filtered_message"}, "string")
WriteDisconnect(p) ==
    W("varint32", p.reason) \o W("bool", p.hide_disconnection_screen)
    \o If(~p.hide_disconnection_screen, W("string", p.message) \o W("string", p.filtered_message))
ReadDisconnect(a) ==
    R("reason", "varint32") \o R("hide_disconnection_screen", "bool")
    \o If(~a.hide_disconnection_screen, R("message", "string") \o R("filtered_message", "string"))

PlayerLocationClass == Of({"type", "entity_unique_id"}, "int") @@ Of({"position"}, "vec3")
WritePlayerLocation(p) ==
    W("int32", p.type) \o W("varint64", p.entity_unique_id) \o If(p.type = 0, W("vec3", p.position))
ReadPlayerLocation(a) ==
    R("type", "int32") \o R("entity_unique_id", "varint64") \o If(a.type = 0, R("position", "vec3"))

PlayerVideoCaptureClass == Of({"action", "frame_rate"}, "int") @@ Of({"file_prefix"}, "string")
WritePlayerVideoCapture(p) ==
    W("uint8", p.action) \o If(p.action = 1, W("int32", p.frame_rate) \o W("string", p.file_prefix))
ReadPlayerVideoCapture(a) ==
    R("action", "uint8") \o If(a.action = 1, R("frame_rate", "int32") \o R("file_prefix", "string"))

\* A setting is a value of Python and its type; what is neither float, bool nor str is
\* written as 0.0.
SettingKinds == <<"float32", "bool", "string">>
PackSettingChangeClass ==
    Of({"pack_id"}, "int") @@ Of({"setting_name"}, "string") @@ Of({"setting_value"}, "setting")
WritePackSettingChange(p) ==
    W("uuid", p.pack_id) \o W("string", p.setting_name)
    \o (IF p.setting_value[1] \in Range(SettingKinds)
        THEN W("varuint32", IndexFirstSubSeq(<<p.setting_value[1]>>, SettingKinds) - 1)
             \o W(p.setting_value[1], p.setting_value[2])
        ELSE W("varuint32", 0) \o W("float32", 0))
ReadPackSettingChange(a) ==
    R("pack_id", "uuid") \o R("setting_name", "string") \o R("setting_type", "varuint32")
    \o If(a.setting_type \in 0..2, R("setting_value", SettingKinds[a.setting_type + 1]))

\* The count of data sets, which is 1 here, the reader drops.
CommandOutputClass ==
    Of({"command_origin", "success_count"}, "int") @@ Of({"output_type", "data_set"}, "string")
    @@ Of({"output_messages"}, "slice")
WriteCommandOutput(p) ==
    W("command_origin", p.command_origin) \o W("string", p.output_type) \o W("uint32", p.success_count)
    \o W("slice", p.output_messages)
    \o If(p.output_type = "dataset", W("varuint32", 1) \o W("string", p.data_set))
ReadCommandOutput(a) ==
    R("command_origin", "command_origin") \o R("output_type", "string") \o R("success_count", "uint32")
    \o R("output_messages", "slice")
    \o If(a.output_type = "dataset", R("_count", "varuint32") \o R("data_set", "string"))

\* A type goes by its name; the type of a name that is none is 0.
DebugTypeNames == (0 :> "cleardebugmarkers") @@ (1 :> "adddebugmarkercube")
DebugRendererClass ==
    Of({"type", "red", "green", "blue", "alpha", "duration"}, "int") @@ Of({"text"}, "string") @@ Of({"position"}, "vec3")
NameIn(names, v) == IF v \in DOMAIN names THEN names[v] ELSE "unknown"
NumberIn(names, name) == IF \E v \in DOMAIN names : names[v] = name
                         THEN CHOOSE v \in DOMAIN names : names[v] = name ELSE 0
WriteDebugRenderer(p) ==
    W("string", NameIn(DebugTypeNames, p.type))
    \o If(p.type = 1, W("string", p.text) \o W("vec3", p.position) \o W("float32", p.red) \o W("float32", p.green)
                      \o W("float32", p.blue) \o W("float32", p.alpha) \o W("uint64", p.duration))
ReadDebugRenderer(a) ==
    R("type_str", "string")
    \o If(NumberIn(DebugTypeNames, a.type_str) = 1,
          R("text", "string") \o R("position", "vec3") \o R("red", "float32") \o R("green", "float32")
          \o R("blue", "float32") \o R("alpha", "float32") \o R("duration", "uint64"))

\* The source of a swing goes by its name, but 0 as None.
SwingSourceNames ==
    [v \in 1..9 |-> <<"none", "build", "mine", "interact", "attack", "useitem", "throwitem", "dropitem", "event">>[v]]
AnimateClass == Of({"action_type", "entity_runtime_id", "data", "swing_source"}, "int")
WriteAnimate(p) ==
    W("uint8", p.action_type) \o W("varuint64", p.entity_runtime_id) \o W("float32", p.data)
    \o WOptional("string", If(p.swing_source # 0, <<NameIn(SwingSourceNames, p.swing_source)>>))
ReadAnimate(a) ==
    R("action_type", "uint8") \o R("entity_runtime_id", "varuint64") \o R("data", "float32")
    \o ROptional("swing_source_str", "string")

InventoryTransactionClass ==
    Of({"legacy_request_id", "transaction_data_type"}, "int") @@ Of({"legacy_set_item_slots"}, "string")
    @@ Of({"actions", "transaction_data"}, "raw")
WriteInventoryTransaction(p) ==
    W("varint32", p.legacy_request_id)
    \o If(p.legacy_request_id # 0, W("byte_slice", p.legacy_set_item_slots))
    \o W("varuint32", p.transaction_data_type) \o W("raw", p.actions) \o W("raw", p.transaction_data)

\* Mutant: the slots are there in every case.
ReadInventoryTransactionAll(a) ==
    R("legacy_request_id", "varint32") \o R("legacy_set_item_slots", "byte_slice")
    \o R("transaction_data_type", "varuint32") \o R("transaction_data", "raw")

\* The reader takes the bytes of both raw fields for the last.
ReadInventoryTransaction(a) ==
    R("legacy_request_id", "varint32")
    \o If(a.legacy_request_id # 0, R("legacy_set_item_slots", "byte_slice"))
    \o R("transaction_data_type", "varuint32") \o R("transaction_data", "raw")

\* Bits 1 to 3 of the flags: texture, decoration, initialisation.  The reader looks for a
\* texture only where there is no decoration.
MapItemDataClass ==
    Of({"map_id", "update_flags", "dimension", "scale", "width", "height", "x_offset", "y_offset"}, "int")
    @@ Of({"locked_map"}, "bool") @@ Of({"origin"}, "vec3") @@ Of({"maps_included_in"}, "slice")
    @@ Of({"tracked_objects", "decorations", "pixels"}, "raw")
WriteMapItemData(p) ==
    W("varint64", p.map_id) \o W("varuint32", p.update_flags) \o W("uint8", p.dimension)
    \o W("bool", p.locked_map) \o W("block_pos", p.origin)
    \o If(HasBit(p.update_flags, 3), W("slice", p.maps_included_in))
    \o If(\E i \in 1..3 : HasBit(p.update_flags, i), W("uint8", p.scale))
    \o If(HasBit(p.update_flags, 2), W("raw", p.tracked_objects) \o W("raw", p.decorations))
    \o If(HasBit(p.update_flags, 1),
          W("varint32", p.width) \o W("varint32", p.height) \o W("varint32", p.x_offset)
          \o W("varint32", p.y_offset) \o W("raw", p.pixels))
ReadMapItemData(a) ==
    R("map_id", "varint64") \o R("update_flags", "varuint32") \o R("dimension", "uint8")
    \o R("locked_map", "bool") \o R("origin", "block_pos")
    \o If(HasBit(a.update_flags, 3), R("maps_included_in", "slice"))
    \o If(\E i \in 1..3 : HasBit(a.update_flags, i), R("scale", "uint8"))
    \o (IF HasBit(a.update_flags, 2) THEN R("tracked_objects", "raw")
        ELSE If(HasBit(a.update_flags, 1),
                R("width", "varint32") \o R("height", "varint32") \o R("x_offset", "varint32")
                \o R("y_offset", "varint32") \o R("pixels", "raw")))

CameraInstructionClass ==
    Of({"set", "fade", "target", "field_of_view", "spline"}, "raw or None")
    @@ Of({"clear", "remove_target", "detach_from_entity"}, "bool or None") @@ Of({"attach_to_entity"}, "int or None")
WriteCameraInstruction(p) ==
    WOptional("raw", p.set) \o WOptional("bool", p.clear) \o WOptional("raw", p.fade) \o WOptional("raw", p.target)
    \o WOptional("bool", p.remove_target) \o WOptional("raw", p.field_of_view) \o WOptional("raw", p.spline)
    \o WOptional("int64", p.attach_to_entity) \o WOptional("bool", p.detach_from_entity)
ReadCameraInstruction(a) ==
    ROptional("set", "raw") \o ROptional("clear", "bool") \o ROptional("fade", "raw") \o ROptional("target", "raw")
    \o ROptional("remove_target", "bool") \o ROptional("field_of_view", "raw") \o ROptional("spline", "raw")
    \o ROptional("attach_to_entity", "int64") \o ROptional("detach_from_entity", "bool")

ModalFormResponseClass ==
    Of({"form_id"}, "int") @@ Of({"response_data"}, "string or None") @@ Of({"cancel_reason"}, "int or None")
WriteModalFormResponse(p) ==
    W("varuint32", p.form_id) \o WOptional("byte_slice", p.response_data) \o WOptional("uint8", p.cancel_reason)
ReadModalFormResponse(a) ==
    R("form_id", "varuint32") \o ROptional("response_data", "byte_slice") \o ROptional("cancel_reason", "uint8")

-----------------------------------------------------------------------------
(* All classes.                                                            *)

Class ==
    [BossEvent |-> BossEventClass, Text |-> TextClass, CommandBlockUpdate |-> CommandBlockUpdateClass,
     BookEdit |-> BookEditClass, MoveActorDelta |-> MoveActorDeltaClass, MovePlayer |-> MovePlayerClass,
     SyncWorldClocks |-> SyncWorldClocksClass, AttributeLayerSync |-> AttributeLayerSyncClass,
     PlayerUpdateEntityOverrides |-> PlayerUpdateEntityOverridesClass, LevelChunk |-> LevelChunkClass,
     Disconnect |-> DisconnectClass, PlayerLocation |-> PlayerLocationClass,
     PlayerVideoCapture |-> PlayerVideoCaptureClass, PackSettingChange |-> PackSettingChangeClass,
     CommandOutput |-> CommandOutputClass, DebugRenderer |-> DebugRendererClass, Animate |-> AnimateClass,
     InventoryTransaction |-> InventoryTransactionClass, MapItemData |-> MapItemDataClass,
     CameraInstruction |-> CameraInstructionClass, ModalFormResponse |-> ModalFormResponseClass]
Fresh(packet) == [n \in DOMAIN Class[packet] |-> Default(Class[packet][n])] @@ [packet |-> packet]

Write(p) ==
    CASE p.packet = "BossEvent" -> WriteBossEvent(p)
      [] p.packet = "Text" -> WriteText(p)
      [] p.packet = "CommandBlockUpdate" -> WriteCommandBlockUpdate(p)
      [] p.packet = "BookEdit" -> WriteBookEdit(p)
      [] p.packet = "MoveActorDelta" -> WriteMoveActorDelta(p)
      [] p.packet = "MovePlayer" -> WriteMovePlayer(p)
      [] p.packet = "SyncWorldClocks" -> WriteSyncWorldClocks(p)
      [] p.packet = "AttributeLayerSync" -> WriteAttributeLayerSync(p)
      [] p.packet = "PlayerUpdateEntityOverrides" -> WritePlayerUpdateEntityOverrides(p)
      [] p.packet = "LevelChunk" -> WriteLevelChunk(p)
      [] p.packet = "Disconnect" -> WriteDisconnect(p)
      [] p.packet = "PlayerLocation" -> WritePlayerLocation(p)
      [] p.packet = "PlayerVideoCapture" -> WritePlayerVideoCapture(p)
      [] p.packet = "PackSettingChange" -> WritePackSettingChange(p)
      [] p.packet = "CommandOutput" -> WriteCommandOutput(p)
      [] p.packet = "DebugRenderer" -> WriteDebugRenderer(p)
      [] p.packet = "Animate" -> WriteAnimate(p)
      [] p.packet = "InventoryTransaction" -> WriteInventoryTransaction(p)
      [] p.packet = "MapItemData" -> WriteMapItemData(p)
      [] p.packet = "CameraInstruction" -> WriteCameraInstruction(p)
      [] p.packet = "ModalFormResponse" -> WriteModalFormResponse(p)

\* The variables that the reader of a class reads, given those that it has read.
Reads(a) ==
    CASE a.packet = "BossEvent" -> ReadBossEvent(a)
      [] a.packet = "Text" -> ReadText(a)
      [] a.packet = "CommandBlockUpdate" -> ReadCommandBlockUpdate(a)
      [] a.packet = "BookEdit" -> ReadBookEdit(a)
      [] a.packet = "MoveActorDelta" -> ReadMoveActorDelta(a)
      [] a.packet = "MovePlayer" -> ReadMovePlayer(a)
      [] a.packet = "SyncWorldClocks" -> ReadSyncWorldClocks(a)
      [] a.packet = "AttributeLayerSync" -> ReadAttributeLayerSync(a)
      [] a.packet = "PlayerUpdateEntityOverrides" -> ReadPlayerUpdateEntityOverrides(a)
      [] a.packet = "LevelChunk" -> ReadLevelChunk(a)
      [] a.packet = "Disconnect" -> ReadDisconnect(a)
      [] a.packet = "PlayerLocation" -> ReadPlayerLocation(a)
      [] a.packet = "PlayerVideoCapture" -> ReadPlayerVideoCapture(a)
      [] a.packet = "PackSettingChange" -> ReadPackSettingChange(a)
      [] a.packet = "CommandOutput" -> ReadCommandOutput(a)
      [] a.packet = "DebugRenderer" -> ReadDebugRenderer(a)
      [] a.packet = "Animate" -> ReadAnimate(a)
      [] a.packet = "InventoryTransaction" -> ReadInventoryTransaction(a)
      [] a.packet = "MapItemData" -> ReadMapItemData(a)
      [] a.packet = "CameraInstruction" -> ReadCameraInstruction(a)
      [] a.packet = "ModalFormResponse" -> ReadModalFormResponse(a)

\* The variables of a reader before it reads: the attributes, and those that are none.
Variables(packet) ==
    Fresh(packet)
    @@ (CASE packet = "Text" -> [_category |-> 0]
          [] packet = "MoveActorDelta" -> [px |-> 0, py |-> 0, pz |-> 0, rx |-> 0, ry |-> 0, rz |-> 0]
          [] packet = "PackSettingChange" -> [setting_type |-> 3]
          [] packet = "CommandOutput" -> [_count |-> 0]
          [] packet = "DebugRenderer" -> [type_str |-> ""]
          [] packet = "Animate" -> [swing_source_str |-> <<>>]
          [] OTHER -> <<>>)

\* The object that a reader makes of its variables.
Made(a) ==
    LET attributes == [n \in DOMAIN Fresh(a.packet) |-> a[n]] IN
    CASE a.packet = "MoveActorDelta" ->
            [attributes EXCEPT !.position = <<a.px, a.py, a.pz>>, !.rotation = <<2 * a.rx, 2 * a.ry, 2 * a.rz>>]
      [] a.packet = "PackSettingChange" ->
            [attributes EXCEPT !.setting_value = IF a.setting_type \in 0..2 THEN <<SettingKinds[a.setting_type + 1], @>>
                                                 ELSE @]
      [] a.packet = "DebugRenderer" -> [attributes EXCEPT !.type = NumberIn(DebugTypeNames, a.type_str)]
      [] a.packet = "Animate" ->
            [attributes EXCEPT !.swing_source = IF a.swing_source_str = <<>> THEN 0
                                                ELSE NumberIn(SwingSourceNames, a.swing_source_str[1])]
      [] OTHER -> attributes

Failure == [failed |-> TRUE, v |-> <<>>, rest |-> <<>>]

\* One value: of another kind it is an error, as is the end; raw takes all that is there.
ReadItem(kind, stream) ==
    IF kind = "raw" THEN [failed |-> FALSE, v |-> stream, rest |-> <<>>]
    ELSE IF stream = <<>> \/ Head(stream)[1] # kind THEN Failure
    ELSE [failed |-> FALSE, v |-> Head(stream)[2], rest |-> Tail(stream)]

\* read_optional
ReadField(f, stream) ==
    LET there == ReadItem("bool", stream) item == ReadItem(f.kind, there.rest) IN
    IF ~f.optional THEN ReadItem(f.kind, stream)
    ELSE IF there.failed THEN Failure
    ELSE IF ~there.v THEN [there EXCEPT !.v = <<>>]
    ELSE [item EXCEPT !.v = <<@>>]

\* read(): one variable after the other, what is next depends on what was read.  Bytes that
\* are left nobody looks at.
ReadPacket(packet, stream) ==
    LET Steps == Len(stream) + 2
        After[i \in 0..Steps] ==
            IF i = 0 THEN [a |-> Variables(packet), rest |-> stream, read |-> 0, failed |-> FALSE]
            ELSE LET b == After[i - 1]
                     fields == Reads(b.a)
                     f == fields[b.read + 1]
                     r == ReadField(f, b.rest)
                 IN IF b.failed \/ b.read = Len(fields) THEN b
                    ELSE [a |-> (f.name :> r.v) @@ b.a, rest |-> r.rest, read |-> b.read + 1, failed |-> r.failed]
    IN IF After[Steps].failed THEN Failure
       ELSE [failed |-> FALSE, v |-> Made(After[Steps].a), rest |-> After[Steps].rest]
=============================================================================
