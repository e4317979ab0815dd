--------------------------- MODULE BridgeImports ---------------------------
(***************************************************************************)
(* What the bridge's imports (src/napi_bridge_init.cc) do with the handle  *)
(* tables, family by family in source order.  Every import resolves the    *)
(* env, then the ids it was given (a missing one is napi_invalid_arg),     *)
(* calls the provider and returns its status unless that is napi_ok; then  *)
(* it stores what it made.  Left out of a shape is the data that passes    *)
(* through and the value ids, which are HandleScopes'.                     *)
(***************************************************************************)
\* load   the table whose entry it needs, "none" for a call over values only
\* make   the table that gets what a successful call made
\* end    whether it ends the loaded resource: never ("none"), when it
\*        succeeds ("ok"), in any case ("always"), or unless the provider
\*        refused it first ("unless refused")
\* guest  whether guest code may run before it returns: the import hands the
\*        engine the running guest (active_callback_ctx) for the call
\* hook   whether it makes a GuestFinalizerRecord, deleted when it fails
Shape(load, make, end, guest, hook) ==
  [load |-> load, make |-> make, end |-> end, guest |-> guest, hook |-> hook]

Values       == Shape("none", "none", "none", FALSE, FALSE)
ValuesEnter  == Shape("none", "none", "none", TRUE, FALSE)
Makes(t)     == Shape("none", t, "none", FALSE, FALSE)
Uses(t)      == Shape(t, "none", "none", FALSE, FALSE)
UsesEnter(t) == Shape(t, "none", "none", TRUE, FALSE)
Ends(t, how) == Shape(t, "none", how, FALSE, FALSE)
Hooks(t)     == Shape("none", t, "none", FALSE, TRUE)

\* A family: its imports, each with its shape or with every shape it may take.
OneOf(names, shapes) == [import : names, shape : shapes]
All(names, shape) == OneOf(names, {shape})

CreateValues ==
  All({"get_undefined", "get_null", "get_boolean", "get_global", "create_string_utf8",
       "create_string_latin1", "create_int32", "create_uint32", "create_double", "create_int64",
       "create_object", "create_array", "create_array_with_length"}, Values)

ReadValues ==
  All({"get_value_string_utf8", "get_value_string_latin1", "get_value_int32", "get_value_uint32",
       "get_value_double", "get_value_int64", "get_value_bool"}, Values)

TestValues ==
  All({"typeof", "is_array", "is_error", "is_arraybuffer", "is_typedarray", "is_dataview",
       "is_date", "is_promise", "instanceof"}, Values)

CoerceValues ==
  All({"coerce_to_bool", "coerce_to_number", "coerce_to_string", "coerce_to_object"}, Values)

Properties ==
  All({"set_property", "get_property", "has_property", "has_own_property", "delete_property",
       "set_named_property", "get_named_property", "has_named_property"}, ValuesEnter)

Elements ==
  All({"set_element", "get_element", "has_element", "delete_element", "get_property_names",
       "get_all_property_names"}, ValuesEnter)
  \cup All({"get_array_length", "get_prototype", "object_freeze", "object_seal"}, Values)

Errors ==
  All({"strict_equals", "create_error", "create_type_error", "create_range_error", "throw",
       "throw_error", "throw_type_error", "throw_range_error", "is_exception_pending",
       "get_and_clear_last_exception"}, Values)

SymbolsAndNumbers ==
  All({"create_symbol", "create_bigint_int64", "create_bigint_uint64", "get_value_bigint_int64",
       "get_value_bigint_uint64", "create_date", "get_date_value"}, Values)

Promises ==
  All({"create_promise"}, Makes("deferred"))
  \cup All({"resolve_deferred", "reject_deferred"}, Ends("deferred", "ok"))

\* The guest's finalizer is added to the value made, as napi_add_finalizer.
ExternalBuffersFinalized ==
  All({"create_external_arraybuffer_guest_finalized",
       "create_external_buffer_guest_finalized"}, Hooks("none"))

ExternalBuffers ==
  All({"create_arraybuffer", "create_external_arraybuffer_finalized",
       "create_external_buffer_finalized", "create_external_arraybuffer",
       "create_external_buffer", "is_sharedarraybuffer", "create_sharedarraybuffer"}, Values)

BufferViews ==
  All({"node_api_set_prototype", "get_arraybuffer_info", "detach_arraybuffer",
       "is_detached_arraybuffer", "create_typedarray", "get_typedarray_info"}, Values)

DataViewsAndExternals ==
  All({"create_dataview", "get_dataview_info", "attach_guest_heap_finalizer", "create_external",
       "get_value_external"}, Values)

References ==
  All({"create_reference"}, Makes("ref"))
  \cup All({"delete_reference"}, Ends("ref", "ok"))
  \cup All({"reference_ref", "reference_unref", "get_reference_value"}, Uses("ref"))

TagsAndCalls ==
  All({"type_tag_object", "check_object_type_tag"}, Values)
  \cup All({"call_function", "run_script"}, ValuesEnter)

StringsAndInstanceData ==
  All({"create_string_utf16", "get_value_string_utf16", "create_bigint_words",
       "get_value_bigint_words", "set_instance_data", "get_instance_data",
       "adjust_external_memory"}, Values)

BuffersAndLeases ==
  All({"create_buffer", "create_buffer_copy", "is_buffer", "get_buffer_info",
       "unofficial_create_guest_backed_typedarray"}, Values)
  \cup All({"unofficial_acquire_buffer_lease"}, Makes("lease"))
  \cup All({"unofficial_release_buffer_lease"}, Ends("lease", "always"))

\* The guest may ask for no reference.
Wraps ==
  OneOf({"wrap", "add_finalizer"}, {Values, Makes("ref")})
  \cup OneOf({"wrap_finalized", "add_finalizer_cb"}, {Hooks("none"), Hooks("ref")})
  \cup All({"unwrap", "remove_wrap"}, Values)

InstancesAndProperties ==
  All({"new_instance"}, ValuesEnter)
  \cup OneOf({"define_properties"}, {Values, Uses("registry")})

\* A function's binding keeps the registration's id (RegisterCallbackBinding).
Functions ==
  All({"define_class", "create_function"}, Uses("registry"))
  \cup All({"get_cb_info", "get_new_target"}, Values)
  \cup All({"register_callback", "register_callback_pair"}, Makes("registry"))

EnvCalls ==
  All({"unofficial_configure_runtime", "unofficial_set_host_near_heap_limit_callback",
       "unofficial_get_live_value_count", "unofficial_set_value_limit",
       "unofficial_collect_garbage", "unofficial_memory_pressure"}, Values)
  \cup All({"unofficial_event_loop_checkpoint"}, ValuesEnter)

Details ==
  All({"unofficial_set_prepare_stack_trace_callback", "unofficial_get_promise_details",
       "unofficial_get_proxy_details", "unofficial_preview_entries", "unofficial_get_call_sites",
       "unofficial_arraybuffer_view_has_buffer", "unofficial_get_constructor_name",
       "unofficial_create_private_symbol", "unofficial_get_continuation_preserved_embedder_data",
       "unofficial_set_continuation_preserved_embedder_data"}, Values)

Scripting ==
  All({"unofficial_create_trusted_script", "unofficial_is_executing_js",
       "unofficial_enqueue_microtask", "unofficial_set_promise_reject_callback",
       "unofficial_get_own_non_index_properties", "unofficial_is_lazy_data_property",
       "unofficial_set_promise_hooks", "unofficial_get_hash_seed"}, Values)
  \cup All({"unofficial_define_lazy_data_properties"}, ValuesEnter)

ErrorsAndStatistics ==
  All({"unofficial_get_error_metadata", "unofficial_configure_source_maps",
       "unofficial_preserve_error_source_message", "unofficial_mark_promise_as_handled",
       "unofficial_get_heap_statistics", "unofficial_get_heap_space_statistics",
       "unofficial_get_heap_code_statistics"}, Values)

Profiles ==
  All({"unofficial_profile_start"}, Makes("profile"))
  \cup All({"unofficial_profile_stop"}, Ends("profile", "unless refused"))
  \cup All({"unofficial_take_heap_snapshot", "unofficial_structured_clone"}, Values)

SerdesAndRealms ==
  All({"unofficial_notify_datetime_configuration_change", "unofficial_create_serdes_binding",
       "unofficial_contextify_contains_module_syntax", "unofficial_create_realm",
       "unofficial_get_realm", "unofficial_enter_realm", "unofficial_leave_realm"}, Values)

\* The source is text or bytecode.
RunsAndCompiles ==
  OneOf({"unofficial_run_script"}, {ValuesEnter, UsesEnter("bytecode")})
  \cup OneOf({"unofficial_compile_function"}, {Values, Uses("bytecode")})

Bytecode ==
  All({"unofficial_bytecode_open"}, Makes("bytecode"))
  \cup All({"unofficial_bytecode_serialize"}, UsesEnter("bytecode"))
  \cup All({"unofficial_bytecode_release"}, Ends("bytecode", "always"))

ModuleCreation ==
  OneOf({"unofficial_module_wrap_create"},
      {Makes("module"), [Makes("module") EXCEPT !.load = "bytecode"]})
  \cup All({"unofficial_module_wrap_destroy"}, Ends("module", "ok"))

ModuleCalls ==
  All({"unofficial_module_wrap_link", "unofficial_module_wrap_instantiate",
       "unofficial_module_wrap_get_namespace", "unofficial_module_wrap_get_state"}, Uses("module"))
  \cup All({"unofficial_module_wrap_evaluate", "unofficial_module_wrap_evaluate_sync"},
           UsesEnter("module"))

ModuleData ==
  All({"unofficial_module_wrap_check_unsettled_top_level_await",
       "unofficial_module_wrap_set_export", "unofficial_module_wrap_set_module_source_object",
       "unofficial_module_wrap_get_module_source_object"}, Uses("module"))
  \cup All({"unofficial_module_wrap_create_cached_data",
            "unofficial_module_wrap_create_required_module_facade"}, UsesEnter("module"))
  \cup All({"unofficial_module_wrap_set_hooks"}, Values)

Imports ==
  CreateValues \cup ReadValues \cup TestValues \cup CoerceValues \cup Properties \cup Elements \cup Errors
  \cup SymbolsAndNumbers \cup Promises \cup ExternalBuffersFinalized \cup ExternalBuffers \cup BufferViews
  \cup DataViewsAndExternals \cup References \cup TagsAndCalls \cup StringsAndInstanceData
  \cup BuffersAndLeases \cup Wraps \cup InstancesAndProperties \cup Functions \cup EnvCalls \cup Details
  \cup Scripting \cup ErrorsAndStatistics \cup Profiles \cup SerdesAndRealms \cup RunsAndCompiles
  \cup Bytecode \cup ModuleCreation \cup ModuleCalls \cup ModuleData

Shapes == {i.shape : i \in Imports}
=============================================================================
