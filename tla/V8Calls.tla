------------------------------ MODULE V8Calls ------------------------------
(***************************************************************************)
(* The N-API calls of the V8 provider (v8/src/js_native_api_v8.cc, some of *)
(* unofficial_napi.cc) as NapiProgram's steps, by family in source order.  *)
(* A call with no Guard is one the source does not refuse while the env    *)
(* terminates.                                                             *)
(***************************************************************************)
EXTENDS NapiProgram

V8Primitives ==
  Same({"napi_get_last_error_info", "napi_get_undefined", "napi_get_null", "napi_get_global",
        "napi_get_boolean", "napi_create_double", "napi_create_int32", "napi_create_int64",
        "napi_create_uint32", "napi_create_bigint_int64", "napi_create_bigint_uint64"},
       <<Args({Arg})>>)
  @@ Same({"napi_create_bigint_words"}, <<Args({Arg}), Make, Args({Fails})>>)
  @@ Same({"napi_create_date"}, <<Guard, Args({Arg}), EnterV8, Args({Fails})>>)

\* napi_throw_range_error with a code, as a typed array or a DataView out of
\* its buffer's range calls it: the code's setter may run.
RangeErrorThrown == <<Guard, Loose, UnlessTerminating, Raise("napi_pending_exception")>>

V8Objects ==
  Same({"napi_create_object", "napi_create_array", "napi_is_typedarray"}, <<Args({Arg})>>)
  @@ Same({"napi_create_external", "napi_create_arraybuffer"}, <<Args({Arg, Fails})>>)
  @@ Each({"napi_create_typedarray"},
          {<<Args({Arg, "napi_arraybuffer_expected", Fails})>>, RangeErrorThrown})

\* CreateExternalArrayBuffer, and CreateExternalBuffer which sets a private.
V8ExternalBuffers ==
  Same({"napi_create_external_arraybuffer"}, <<Args({Arg, Fails})>>)
  @@ Same({"napi_create_external_buffer"}, <<Guard, Args({Arg, Fails}), EnterV8>>)

V8ArrayViews ==
  Same({"napi_get_typedarray_info", "napi_detach_arraybuffer", "napi_is_detached_arraybuffer",
        "napi_create_array_with_length"},
       <<Args({Arg, Fails, "napi_arraybuffer_expected"})>>)

V8Strings ==
  Same({"napi_create_string_utf8", "napi_create_string_latin1", "napi_create_string_utf16",
        "node_api_create_external_string_latin1", "node_api_create_external_string_utf16"},
       <<Args({Arg, Fails})>>)

V8KeysAndSymbols ==
  Same({"node_api_create_property_key_latin1", "node_api_create_property_key_utf8",
        "node_api_create_property_key_utf16", "napi_create_symbol", "node_api_symbol_for"},
       <<Args({Arg, "napi_string_expected", Fails})>>)

V8Numbers ==
  Same({"napi_typeof", "napi_get_value_double", "napi_get_value_uint32", "napi_get_value_int32",
        "napi_get_value_int64", "napi_get_value_bigint_int64", "napi_get_value_bigint_uint64",
        "napi_get_value_bigint_words"},
       <<Args({Arg, "napi_number_expected", "napi_bigint_expected"})>>)

V8DatesAndBuffers ==
  Same({"napi_is_date", "napi_get_date_value", "napi_is_arraybuffer", "napi_get_arraybuffer_info",
        "node_api_is_sharedarraybuffer", "node_api_create_sharedarraybuffer"},
       <<Args({Arg, "napi_date_expected", Fails})>>)
  @@ Each({"napi_create_dataview"},
          {<<Args({Arg, "napi_arraybuffer_expected", Fails})>>, RangeErrorThrown})

V8Arrays ==
  Same({"napi_is_dataview", "napi_get_dataview_info", "napi_is_array", "napi_get_array_length"},
       <<Args({Arg, Fails, "napi_array_expected"})>>)

V8Elements ==
  Same({"napi_get_element"}, <<Guard, Args({Arg, Object}), Try, Args({Fails})>>)
  @@ Same({"napi_set_element", "napi_has_element", "napi_delete_element"},
          <<Guard, Args({Arg, Object}), Try>>)
  @@ Same({"napi_instanceof"}, <<Guard, Args({Arg, "napi_function_expected"}), Try>>)

V8CallbackInfo ==
  Same({"napi_get_cb_info", "napi_get_new_target"}, <<Args({Arg})>>)
  @@ Same({"napi_open_handle_scope", "napi_open_escapable_handle_scope",
           "napi_close_handle_scope", "napi_close_escapable_handle_scope", "napi_escape_handle"},
          <<Args({Arg, Fails, "napi_escape_called_twice"})>>)

V8Functions ==
  Same({"napi_create_function"}, <<Guard, Args({Arg, Fails}), EnterV8, Args({Fails})>>)

\* The class's own properties are defined without a TryCatch.
V8Classes ==
  Same({"napi_define_class"},
       <<Guard, Args({Arg, Fails}), EnterV8, Args({"napi_name_expected", Fails}), Bare(Fails)>>)

V8Invocations ==
  Same({"napi_new_instance", "napi_call_function"},
       <<Guard, Args({Arg, "napi_function_expected"}), Try, Args({Fails})>>)

V8DefineProperties ==
  Same({"napi_define_properties"},
       <<Guard, Args({Arg, Object}), Args({"napi_name_expected", Fails}), Try>>)

V8Promises ==
  Same({"napi_create_promise"}, <<Guard, Args({Arg}), Try, Args({Fails})>>)
  @@ Same({"napi_resolve_deferred", "napi_reject_deferred"}, <<Guard, Args({Arg}), Try>>)
  @@ Same({"napi_is_promise"}, <<Args({Arg})>>)

V8Properties ==
  Same({"napi_has_named_property", "napi_set_property", "napi_has_property",
        "napi_delete_property", "napi_has_own_property"},
       <<Guard, Args({Arg, Object, "napi_name_expected", Fails}), Try>>)
  @@ Same({"napi_get_property"}, <<Guard, Args({Arg, Object}), Try, Args({Fails})>>)

V8PropertyNames ==
  Same({"napi_get_property_names", "napi_get_all_property_names"},
       <<Guard, Args({Arg, Object}), Try, Args({Fails})>>)

\* The prototype is set without a guard and without a TryCatch (a proxy's
\* trap may run).
V8NamedProperties ==
  Same({"napi_set_named_property"}, <<Guard, Args({Arg, Object, Fails}), Try>>)
  @@ Same({"napi_get_named_property"}, <<Guard, Args({Arg, Object, Fails}), Try, Args({Fails})>>)
  @@ Same({"napi_get_prototype"}, <<Args({Arg, Object, Fails})>>)
  @@ Same({"node_api_set_prototype"}, <<Args({Arg, Object}), Bare(Fails)>>)

V8StringValues ==
  Same({"napi_get_value_bool", "napi_get_value_string_utf8", "napi_get_value_string_latin1",
        "napi_get_value_string_utf16"},
       <<Args({Arg, "napi_boolean_expected", "napi_string_expected"})>>)

V8Coercions ==
  Same({"napi_coerce_to_bool", "napi_get_value_external", "napi_strict_equals"}, <<Args({Arg})>>)
  @@ Same({"napi_coerce_to_number", "napi_coerce_to_object", "napi_coerce_to_string"},
          <<Guard, Args({Arg}), Try>>)

V8References ==
  Same({"napi_create_reference", "napi_delete_reference", "napi_reference_ref",
        "napi_reference_unref", "napi_get_reference_value"},
       <<Args({Arg, Fails})>>)

\* Wrapping reads and writes a private symbol: it enters V8, and runs no JS.
V8Wraps ==
  Same({"napi_wrap", "napi_unwrap", "napi_remove_wrap"},
       <<Args({Arg, Object}), EnterV8, Args({Arg, Fails})>>)

\* ThrowErrorWithCode: setting `code` runs an inherited setter, JS with no
\* TryCatch around it.
V8Throw ==
  Each({"napi_throw_error"},
       {<<Guard, Args({Arg, Fails}), UnlessTerminating, Raise("napi_pending_exception")>>,
        <<Guard, Args({Arg, Fails}), Loose, UnlessTerminating, Raise("napi_pending_exception")>>})
  @@ Same({"napi_throw"}, <<Guard, Args({Arg}), Raise("napi_pending_exception")>>)

V8CreateErrors ==
  Same({"napi_is_error"}, <<Args({Arg})>>)
  @@ Each({"napi_create_error", "napi_create_type_error", "napi_create_range_error",
           "node_api_create_syntax_error"},
          {<<Args({Arg, "napi_string_expected", Fails})>>,
           <<Guard, Args({Arg, "napi_string_expected", Fails}), Loose, Args({Fails})>>})

V8ThrowKinds ==
  Each({"napi_throw_type_error", "napi_throw_range_error", "node_api_throw_syntax_error"},
       V8Throw["napi_throw_error"])

\* Formatting the exception taken may run the source-map callback.
V8PendingException ==
  Same({"napi_is_exception_pending"}, <<Args({Arg})>>)
  @@ Same({"napi_get_and_clear_last_exception"},
          <<Args({Arg}), NeedPending, Quiet, Clear, Args({Fails})>>)

V8Scripts ==
  Same({"napi_set_instance_data", "napi_get_instance_data"}, <<Args({Arg})>>)
  @@ Same({"napi_run_script"}, <<Guard, Args({Arg, "napi_string_expected"}), Try, Args({Fails})>>)
  @@ Same({"napi_fatal_exception"}, <<Guard, Args({Arg}), Raise("napi_ok")>>)

V8Buffers ==
  Same({"napi_add_env_cleanup_hook", "napi_remove_env_cleanup_hook", "napi_is_buffer",
        "napi_get_buffer_info"},
       <<Args({Arg, Fails})>>)
  @@ Same({"napi_create_buffer", "napi_create_buffer_copy",
           "node_api_create_buffer_from_arraybuffer"},
          <<Guard, Args({Arg, Fails}), EnterV8, Args({Fails})>>)

\* Freezing has a guard but no TryCatch: a proxy's trap may throw.
V8Integrity ==
  Same({"napi_adjust_external_memory", "napi_add_finalizer", "napi_get_version"},
       <<Args({Arg, Object, Fails})>>)
  @@ Same({"napi_object_freeze", "napi_object_seal"}, <<Guard, Args({Arg, Object}), Bare(Fails)>>)

\* No guard and no TryCatch, though a key is converted to a property name.
V8TypeTags ==
  Same({"napi_type_tag_object", "napi_check_object_type_tag"},
       <<Args({Arg}), EnterV8, Args({Arg, Fails})>>)
  @@ Same({"node_api_create_object_with_properties"},
          <<Args({Arg, Object, Fails}), Bare(Fails), Args({Fails})>>)

\* unofficial_napi_contextify_run_script.
V8TimedScripts == Same({"unofficial_napi_contextify_run_script"}, <<Args({Arg}), Guard, Timed, Args({Fails})>>)

\* The calls of unofficial_napi.cc.
V8TrustedScripts ==
  Same({"unofficial_napi_create_trusted_script"},
       <<Args({Arg}), Guard, Args({"napi_string_expected"}), EnterV8, Args({Fails})>>)

V8PromiseHooks ==
  Same({"unofficial_napi_is_executing_js", "unofficial_napi_enqueue_microtask",
        "unofficial_napi_set_promise_reject_callback", "unofficial_napi_set_promise_hooks",
        "unofficial_napi_get_promise_details"},
       <<Args({Arg, "napi_function_expected", Fails})>>)

\* The call sites are stored in an array by Set: no guard, no TryCatch, and a
\* setter on Array.prototype may run.
V8Details ==
  Same({"unofficial_napi_get_proxy_details", "unofficial_napi_arraybuffer_view_has_buffer",
        "unofficial_napi_preview_entries", "unofficial_napi_get_constructor_name"},
       <<Args({Arg, Fails})>>)
  @@ Same({"unofficial_napi_get_call_sites"}, <<Args({Arg}), EnterV8, Bare(Fails), Args({Fails})>>)

V8PrivateSymbols ==
  Same({"unofficial_napi_create_private_symbol"},
       <<Args({Arg}), Guard, Args({Arg, Fails}), EnterV8, Args({Fails})>>)

V8OwnProperties ==
  Same({"unofficial_napi_get_own_non_index_properties"},
       <<Args({Arg}), Guard, Args({Object}), Try, Args({Fails})>>)

V8HeapStatistics ==
  Same({"unofficial_napi_get_hash_seed", "unofficial_napi_get_heap_statistics",
        "unofficial_napi_get_heap_space_statistics", "unofficial_napi_get_heap_code_statistics"},
       <<Args({Arg})>>)

V8EmbedderData ==
  Same({"unofficial_napi_get_continuation_preserved_embedder_data",
        "unofficial_napi_set_continuation_preserved_embedder_data",
        "unofficial_napi_notify_datetime_configuration_change"},
       <<Args({Arg, Fails})>>)

V8Table ==
  V8Primitives @@ V8Objects @@ V8ExternalBuffers @@ V8ArrayViews @@ V8Strings
  @@ V8KeysAndSymbols @@ V8Numbers @@ V8DatesAndBuffers @@ V8Arrays @@ V8Elements
  @@ V8CallbackInfo @@ V8Functions @@ V8Classes @@ V8Invocations @@ V8DefineProperties
  @@ V8Promises @@ V8Properties @@ V8PropertyNames @@ V8NamedProperties @@ V8StringValues
  @@ V8Coercions @@ V8References @@ V8Wraps @@ V8Throw @@ V8CreateErrors @@ V8ThrowKinds
  @@ V8PendingException @@ V8Scripts @@ V8Buffers @@ V8Integrity @@ V8TypeTags
  @@ V8TimedScripts @@ V8TrustedScripts @@ V8PromiseHooks @@ V8Details @@ V8PrivateSymbols
  @@ V8OwnProperties @@ V8HeapStatistics @@ V8EmbedderData

\* The paths a V8 call can take.
V8Paths == PathsOf(V8Table)
=============================================================================
